---- MODULE Spec2Model ----
(***************************************************************************)
(* ChannelSmith core: the packing engine (pack_channels,                   *)
(* pack_texture_from_template, normalize_resolution), the unpacking engine *)
(* (extract_channel, unpack_texture), the validator's get_max_resolution   *)
(* and the PackingTemplate queries they use.                               *)
(*                                                                         *)
(* A raster buffer (a 2-D NumPy array) is a record                         *)
(*   [dtype, h, w, uniform, px]                                            *)
(* with px[y][x] the sample of row y, column x (1-based).  An array whose  *)
(* side exceeds MaxPixels (only the 1024x1024 fallback arrays of np.full and  *)
(* the planes cut out of them) is kept in constant form: uniform = TRUE    *)
(* and px = <<<<v>>>>; At(b, y, x) reads a sample of either form.          *)
(* A decoded image (PIL.Image) is a record [mode, w, h, planes].           *)
(***************************************************************************)
EXTENDS Integers, Sequences, FiniteSets, TLC

\* Largest number of samples of a raster buffer or image supplied by a
\* caller: the shapes are the (h, w) with h * w <= MaxPixels.
MaxPixels == 2

None == [kind |-> "None"]

Max(a, b) == IF a >= b THEN a ELSE b
Min(a, b) == IF a <= b THEN a ELSE b
Abs(a) == IF a < 0 THEN 0 - a ELSE a

Pow2(n) == 2 ^ n

RECURSIVE SumSeq(_)
SumSeq(s) == IF s = <<>> THEN 0 ELSE Head(s) + SumSeq(Tail(s))

\* A variant of MaxOf that takes the smallest element.
MinOf(S) == CHOOSE m \in S : \A e \in S : m <= e

\* max(...) over a non-empty collection
MaxOf(S) == CHOOSE m \in S : \A e \in S : e <= m

Clip(v, lo, hi) == IF v < lo THEN lo ELSE IF v > hi THEN hi ELSE v

\* range(1, n + 1)
Range(n) == [i \in 1..n |-> i]

\* The sequence s and the function f with every element evaluated once (TLC
\* keeps [i \in S |-> e] unevaluated and evaluates e at each application).
Tup(s) == s \o <<>>
Fcn(f) == f @@ <<>>

---------------------------------------------------------------------------
(* Outcomes: a function either returns a value or raises *)

NoError == [type |-> "none", msg |-> ""]
Ok(v) == [err |-> NoError, val |-> v]
Raise(type, msg) == [err |-> [type |-> type, msg |-> msg], val |-> None]
Failed(res) == res.err # NoError

---------------------------------------------------------------------------
(* Raster buffers (numpy.ndarray) *)

\* The h x w array of element type dtype with sample f[y, x] at (y, x).
NdArray(dtype, h, w, f) ==
    [kind |-> "ndarray", dtype |-> dtype, ndim |-> 2, h |-> h, w |-> w,
     uniform |-> FALSE,
     px |-> Tup([y \in 1..h |-> Tup([x \in 1..w |-> f[y, x]])])]

IsLarge(h, w) == h > MaxPixels \/ w > MaxPixels

\* np.full((h, w), v, dtype=np.uint8) and np.zeros((h, w), dtype=np.uint8)
NpFull(h, w, v) ==
    IF IsLarge(h, w)
    THEN [kind |-> "ndarray", dtype |-> "uint8", ndim |-> 2, h |-> h, w |-> w,
          uniform |-> TRUE, px |-> << <<v>> >>]
    ELSE NdArray("uint8", h, w, [y \in 1..h, x \in 1..w |-> v])

At(b, y, x) == IF b.uniform THEN b.px[1][1] ELSE b.px[y][x]

\* np.clip(array, lo, hi)
NpClip(b, lo, hi) ==
    [b EXCEPT !.px = Tup([y \in DOMAIN b.px |->
                        Tup([x \in DOMAIN b.px[y] |-> Clip(b.px[y][x], lo, hi)])])]

\* np.issubdtype(dtype, np.number)
IsNumeric(dtype) == dtype \in {"uint8", "int16", "float64"}

\* bytes of one element
ItemSize(dtype) == CASE dtype = "uint8" -> 1
                     [] dtype = "int16" -> 2
                     [] dtype = "float64" -> 8

\* np.result_type of a stack of arrays
PromoteDtype(dts) == IF "float64" \in dts THEN "float64"
                     ELSE IF "int16" \in dts THEN "int16"
                     ELSE "uint8"

\* floor(log2 m), m >= 1
RECURSIVE Log2(_)
Log2(m) == IF m < 2 THEN 0 ELSE 1 + Log2(m \div 2)

\* Byte i (0-based, little-endian memory order) of one element of value v.
\* float64 is IEEE-754 binary64 of an integer value |v| < 4096: sign,
\* 11-bit exponent, and the 12 leading fraction bits (the rest are zero).
ByteOf(dtype, v, i) ==
    CASE dtype = "uint8" -> v % 256
      [] dtype = "int16" ->
            LET u == v % 65536 IN IF i = 0 THEN u % 256 ELSE u \div 256
      [] dtype = "float64" ->
            IF v = 0 THEN 0
            ELSE LET m == Abs(v)
                     e == Log2(m)
                     E == 1023 + e
                     top12 == (m - Pow2(e)) * Pow2(12 - e)
                 IN  CASE i = 7 -> (IF v < 0 THEN 128 ELSE 0) + E \div 16
                       [] i = 6 -> (E % 16) * 16 + top12 \div 256
                       [] i = 5 -> top12 % 256
                       [] OTHER -> 0

---------------------------------------------------------------------------
(* Validator *)

Shape(h, w) == [kind |-> "shape", h |-> h, w |-> w]

\* A variant of validate_channel_data that accepts 8-bit arrays only.
ValidateUint8Only(data, expected_shape, allow_empty) ==
    IF data.kind # "ndarray"
    THEN [type |-> "TypeError", msg |-> "Channel data must be a NumPy array"]
    ELSE IF data.ndim # 2 \/ data.h * data.w = 0 \/ data.dtype # "uint8"
    THEN [type |-> "InvalidChannelDataError", msg |-> "Channel data must be 8-bit"]
    ELSE NoError

\* validate_channel_data(data, expected_shape, allow_empty): the error it
\* raises, or NoError.
validate_channel_data(data, expected_shape, allow_empty) ==
    IF data.kind # "ndarray"
    THEN [type |-> "TypeError", msg |-> "Channel data must be a NumPy array"]
    ELSE IF data.ndim # 2
    THEN [type |-> "InvalidChannelDataError", msg |-> "Channel data must be 2D array"]
    ELSE IF data.h * data.w = 0 /\ ~allow_empty
    THEN [type |-> "InvalidChannelDataError", msg |-> "Channel data cannot be empty"]
    ELSE IF expected_shape # None /\ Shape(data.h, data.w) # expected_shape
    THEN [type |-> "InvalidChannelDataError", msg |-> "shape does not match expected shape"]
    ELSE IF ~IsNumeric(data.dtype)
    THEN [type |-> "InvalidChannelDataError", msg |-> "Channel data must have numeric dtype"]
    ELSE NoError

\* get_max_resolution(images): (max width, max height), each taken on its own.
get_max_resolution(images) ==
    IF images = <<>>
    THEN Raise("ValueError", "Images list cannot be empty")
    ELSE IF \E i \in DOMAIN images : images[i].kind # "image"
    THEN Raise("TypeError", "Item is not a PIL Image instance")
    ELSE Ok(<<MaxOf({images[i].w : i \in DOMAIN images}),
              MaxOf({images[i].h : i \in DOMAIN images})>>)

\* check_resolution_match(images): every image has the size of the first.
check_resolution_match(images) ==
    IF images = <<>>
    THEN Raise("ValueError", "Images list cannot be empty")
    ELSE IF \E i \in DOMAIN images : images[i].kind # "image"
    THEN Raise("TypeError", "Item is not a PIL Image instance")
    ELSE Ok(\A i \in DOMAIN images :
               images[i].w = images[1].w /\ images[i].h = images[1].h)

\* A variant of validate_images_for_packing that never looks at require_all.
ValidateImagesSomeSuffice(images, require_all) ==
    LET valid_images == SelectSeq(images, LAMBDA img : img # None)
        match == check_resolution_match(valid_images)
    IN  IF valid_images = <<>>
        THEN Raise("ValueError", "At least one image must be provided (not None)")
        ELSE IF Failed(match) THEN match
        ELSE IF ~match.val
        THEN Raise("ResolutionMismatchError", "All images must have the same resolution")
        ELSE Ok(<<valid_images[1].w, valid_images[1].h>>)

\* validate_images_for_packing(images, require_all): (width, height)
validate_images_for_packing(images, require_all) ==
    LET valid_images == SelectSeq(images, LAMBDA img : img # None)
        match == check_resolution_match(valid_images)
    IN  IF images = <<>>
        THEN Raise("ValueError", "Images list cannot be empty")
        ELSE IF valid_images = <<>>
        THEN Raise("ValueError", "At least one image must be provided (not None)")
        ELSE IF require_all /\ Len(valid_images) # Len(images)
        THEN Raise("ValueError", "All images are required")
        ELSE IF \E i \in DOMAIN images :
                   images[i] # None /\ images[i].kind # "image"
        THEN Raise("TypeError", "Item is not a PIL Image instance")
        ELSE IF Failed(match) THEN match
        ELSE IF ~match.val
        THEN Raise("ResolutionMismatchError", "All images must have the same resolution")
        ELSE Ok(<<valid_images[1].w, valid_images[1].h>>)

\* validate_arrays_for_packing(arrays, require_all): (height, width)
validate_arrays_for_packing(arrays, require_all) ==
    LET valid_arrays == SelectSeq(arrays, LAMBDA arr : arr # None)
        invalid == SelectSeq(arrays, LAMBDA arr :
                       arr # None /\ validate_channel_data(arr, None, FALSE) # NoError)
    IN  IF arrays = <<>>
        THEN Raise("ValueError", "Arrays list cannot be empty")
        ELSE IF valid_arrays = <<>>
        THEN Raise("ValueError", "At least one array must be provided (not None)")
        ELSE IF require_all /\ Len(valid_arrays) # Len(arrays)
        THEN Raise("ValueError", "All arrays are required")
        ELSE IF invalid # <<>>
        THEN Raise("InvalidChannelDataError", "Array is invalid")
        ELSE IF \E i \in DOMAIN valid_arrays :
                   \/ valid_arrays[i].h # valid_arrays[1].h
                   \/ valid_arrays[i].w # valid_arrays[1].w
        THEN Raise("InvalidChannelDataError", "All arrays must have the same shape")
        ELSE Ok(<<valid_arrays[1].h, valid_arrays[1].w>>)

---------------------------------------------------------------------------
(* Decoded images (PIL.Image.Image): planes are uint8 buffers *)

\* A variant of Img whose images are RGBA whatever mode is asked for.
ImgAlwaysRGBA(mode, w, h, planes) ==
    [kind |-> "image", mode |-> "RGBA", w |-> w, h |-> h, planes |-> planes]

Img(mode, w, h, planes) ==
    [kind |-> "image", mode |-> mode, w |-> w, h |-> h, planes |-> planes]

\* The samples of every plane of ps at (y, x).
PixelOf(ps, y, x) == [i \in DOMAIN ps |-> ps[i].px[y][x]]

\* The opaque alpha plane convert("RGBA") adds: v everywhere, shaped as p.
ConstPlane(p, v) ==
    [p EXCEPT !.px = Tup([y \in DOMAIN p.px |->
                        Tup([x \in DOMAIN p.px[y] |-> v])])]

\* Pillow's L = (R*19595 + G*38470 + B*7471 + 0x8000) >> 16
Luma(s) == (s[1] * 19595 + s[2] * 38470 + s[3] * 7471 + 32768) \div 65536

\* Pillow's MULDIV255(a, b) = (t = a*b + 128, ((t >> 8) + t) >> 8)
MulDiv255(a, b) == LET t == a * b + 128 IN ((t \div 256) + t) \div 256

\* Pillow's cmyk2rgb: nk = 255 - K; out = clip8(nk - MULDIV255(in, nk))
CmykToRgb(s, i) == Clip((255 - s[4]) - MulDiv255(s[i], 255 - s[4]), 0, 255)

\* Band i of the RGB conversion of the CMYK planes ps.
CmykPlane(ps, i) ==
    [ps[1] EXCEPT !.px = Tup([y \in DOMAIN ps[1].px |->
        Tup([x \in DOMAIN ps[1].px[y] |-> CmykToRgb(PixelOf(ps, y, x), i)])])]

\* The L conversion of the RGB planes ps.
LumaPlane(ps) ==
    [ps[1] EXCEPT !.px = Tup([y \in DOMAIN ps[1].px |->
        Tup([x \in DOMAIN ps[1].px[y] |-> Luma(PixelOf(ps, y, x))])])]

\* Image.convert("RGB")
ConvertRGB(image) ==
    LET ps == image.planes
    IN  CASE image.mode \in {"L", "LA", "1"} ->
                Img("RGB", image.w, image.h, <<ps[1], ps[1], ps[1]>>)
          [] image.mode = "CMYK" ->
                Img("RGB", image.w, image.h,
                    Tup([i \in 1..3 |-> CmykPlane(ps, i)]))
          [] image.mode = "RGBA" ->
                Img("RGB", image.w, image.h, <<ps[1], ps[2], ps[3]>>)
          [] OTHER -> image

\* Image.convert("RGBA")
ConvertRGBA(image) ==
    LET rgb == ConvertRGB(image)
        alpha == IF image.mode = "LA" THEN image.planes[2]
                 ELSE ConstPlane(image.planes[1], 255)
    IN  IF image.mode = "RGBA" THEN image
        ELSE Img("RGBA", image.w, image.h, rgb.planes \o <<alpha>>)

\* Image.convert("L")
ConvertL(image) ==
    IF image.mode \in {"L", "LA", "1"}
    THEN Img("L", image.w, image.h, <<image.planes[1]>>)
    ELSE Img("L", image.w, image.h, <<LumaPlane(ConvertRGB(image).planes)>>)

\* to_grayscale(image): the 2-D uint8 array of the image converted to 'L'
to_grayscale(image) ==
    IF image.kind # "image"
    THEN Raise("TypeError", "Expected PIL Image instance")
    ELSE Ok(ConvertL(image).planes[1])

\* from_grayscale(array): the 'L' image of a 2-D array, clipped to 0..255
\* and cast to uint8 when it is of another element type
from_grayscale(array) ==
    IF array.kind # "ndarray"
    THEN Raise("TypeError", "Expected NumPy array")
    ELSE IF array.ndim # 2
    THEN Raise("ImageConversionError", "Expected 2D array")
    ELSE Ok(Img("L", array.w, array.h,
                <<IF array.dtype # "uint8"
                  THEN [NpClip(array, 0, 255) EXCEPT !.dtype = "uint8"]
                  ELSE array>>))

---------------------------------------------------------------------------
(* Image.resize(size, Image.BILINEAR) on an 'L' image: Pillow's two-pass   *)
(* convolution resampling with a triangle filter, 8-bit fixed point.       *)

\* The fixed-point precision of Pillow's 8-bit resampling (32 - 8 - 2 bits).
PrecisionBits == 32 - 8 - 2

\* One output sample xx (0-based) of a line resampled from Len(line) to out
\* samples.  With D = 2*max(in, out), the filter support covers the input
\* samples xmin..xmax-1 and sample x weighs max(0, D - |(2x+1)*out -
\* (2xx+1)*in|) / D, normalised to sum 1 and rounded to PrecisionBits.
ResampleSample(line, out, xx) ==
    LET in == Len(line)
        D == 2 * Max(in, out)
        c == (2 * xx + 1) * in
        xmin == Max(0, (c - D + out) \div (2 * out))
        xmax == Min(in, (c + D + out) \div (2 * out))
        n == xmax - xmin
        num == [i \in 1..n |-> Max(0, D - Abs((2 * (xmin + i - 1) + 1) * out - c))]
        ww == SumSeq(num)
        k == [i \in 1..n |->
                IF ww = 0 THEN 0
                ELSE (num[i] * Pow2(PrecisionBits + 1) + ww) \div (2 * ww)]
        acc == Pow2(PrecisionBits - 1)
               + SumSeq([i \in 1..n |-> line[xmin + i] * k[i]])
    IN  Clip(acc \div Pow2(PrecisionBits), 0, 255)

ResampleLine(line, out) ==
    Tup([j \in 1..out |-> ResampleSample(line, out, j - 1)])

\* The horizontal pass, then the vertical pass, each only when that side
\* changes.  A constant plane stays constant: the rounded weights sum to
\* 2^22 within a few units, far less than the 2^21 / 255 a sample tolerates.
ResizeBilinear(image, tw, th) ==
    LET p == image.planes[1]
        rows == IF tw = image.w THEN p.px
                ELSE Tup([y \in 1..image.h |-> ResampleLine(p.px[y], tw)])
        col(x) == Tup([y \in 1..image.h |-> rows[y][x]])
        cols == Tup([x \in 1..tw |-> ResampleLine(col(x), th)])
        out == IF th = image.h THEN rows
               ELSE Tup([y \in 1..th |-> Tup([x \in 1..tw |-> cols[x][y]])])
    IN  IF p.uniform
        THEN Img("L", tw, th, <<NpFull(th, tw, p.px[1][1])>>)
        ELSE Img("L", tw, th, <<[p EXCEPT !.h = th, !.w = tw, !.px = out]>>)

---------------------------------------------------------------------------
(* Packing engine *)

Slots == <<"R", "G", "B", "A">>
SlotSet == {"R", "G", "B", "A"}

\* A variant of _CHANNEL_INDEX with the colour planes in reverse order.
ChannelIndexReversed(key) == CASE key = "R" -> 3 [] key = "G" -> 2
                               [] key = "B" -> 1 [] key = "A" -> 4

\* _CHANNEL_INDEX, 1-based
ChannelIndex(key) == CASE key = "R" -> 1 [] key = "G" -> 2
                       [] key = "B" -> 3 [] key = "A" -> 4

\* A variant of NormalizeOne that resizes also an array that is at the
\* target size.
NormalizeAlwaysResized(arr, tw, th) ==
    LET e == validate_channel_data(arr, None, FALSE)
        img == from_grayscale(arr)
    IN  IF e # NoError THEN [err |-> e, val |-> None]
        ELSE IF Failed(img) THEN img
        ELSE to_grayscale(ResizeBilinear(img.val, tw, th))

\* One array of normalize_resolution's loop.
NormalizeOne(arr, tw, th) ==
    LET e == validate_channel_data(arr, None, FALSE)
        img == from_grayscale(arr)
    IN  IF e # NoError THEN [err |-> e, val |-> None]
        ELSE IF arr.w = tw /\ arr.h = th THEN Ok(arr)
        ELSE IF Failed(img) THEN img
        ELSE to_grayscale(ResizeBilinear(img.val, tw, th))

\* normalize_resolution(arrays, target_size), target_size = <<width, height>>
normalize_resolution(arrays, target_size) ==
    IF arrays = <<>>
    THEN Raise("ValueError", "Arrays list cannot be empty")
    ELSE IF Len(target_size) # 2 \/ target_size[1] <= 0 \/ target_size[2] <= 0
    THEN Raise("ValueError", "Invalid target_size")
    ELSE LET rs == Tup([i \in DOMAIN arrays |->
                      NormalizeOne(arrays[i], target_size[1], target_size[2])])
             bad == SelectSeq(Range(Len(arrays)), LAMBDA i : Failed(rs[i]))
         IN  IF bad # <<>> THEN rs[bad[1]]
             ELSE Ok(Tup([i \in DOMAIN arrays |-> rs[i].val]))

\* Image.fromarray(np.stack(chs, axis=2), mode=mode).  The stack has the
\* promoted element type of its planes; fromarray with an explicit mode reads
\* the array's memory as 8-bit samples, pixel after pixel, band after band:
\* band c of pixel (y, x) is byte ((y*w + x)*C + c) of the buffer, whatever
\* the element type of the array.
StackToImage(chs, mode) ==
    LET C == Len(chs)
        dt == PromoteDtype({chs[i].dtype : i \in DOMAIN chs})
        sz == ItemSize(dt)
        h == chs[1].h
        w == chs[1].w
        byte(j) == LET e == j \div sz
                       pix == e \div C
                   IN  ByteOf(dt, At(chs[(e % C) + 1], (pix \div w) + 1, (pix % w) + 1),
                              j % sz)
        plane(c) == IF dt = "uint8" THEN chs[c]
                    ELSE NdArray("uint8", h, w,
                           [y \in 1..h, x \in 1..w |->
                               byte(((y - 1) * w + (x - 1)) * C + (c - 1))])
    IN  Img(mode, w, h, Tup([c \in 1..C |-> plane(c)]))

\* pack_channels(r, g, b, a)
pack_channels(r, g, b, a) ==
    LET channels == <<r, g, b, a>>
        valid == SelectSeq(Range(4), LAMBDA i : channels[i] # None)
        errs == Tup([i \in 1..4 |->
                       IF channels[i] = None THEN NoError
                       ELSE validate_channel_data(channels[i], None, FALSE)])
        bad == SelectSeq(valid, LAMBDA i : errs[i] # NoError)
        max_height == MaxOf({channels[valid[k]].h : k \in DOMAIN valid})
        max_width == MaxOf({channels[valid[k]].w : k \in DOMAIN valid})
        norm == normalize_resolution(Tup([k \in DOMAIN valid |-> channels[valid[k]]]),
                                     <<max_width, max_height>>)
        pos(i) == CHOOSE k \in DOMAIN valid : valid[k] = i
        slot(i) == IF channels[i] # None THEN norm.val[pos(i)]
                   ELSE NpFull(max_height, max_width, 0)
        has_alpha == channels[4] # None
        final == Tup([i \in 1..(IF has_alpha THEN 4 ELSE 3) |-> slot(i)])
    IN  IF valid = <<>>
        THEN Raise("ValueError", "At least one channel must be provided (not None)")
        ELSE IF bad # <<>> THEN [err |-> errs[bad[1]], val |-> None]
        ELSE IF Failed(norm) THEN norm
        ELSE Ok(StackToImage(final, IF has_alpha THEN "RGBA" ELSE "RGB"))

---------------------------------------------------------------------------
(* Python values and strings.  A value that may be of any type is held     *)
(* with its type: None, Str(text), Number(v), Object(d).  A str is a TLA+  *)
(* string; Chars gives its characters and Join the str of given characters. *)

Number(v) == [kind |-> "number", v |-> v]
Str(text) == [kind |-> "str", text |-> text]
Object(d) == [kind |-> "object", d |-> d]

\* bool(value) is False: None, "", 0, an empty dict.
Falsy(value) ==
    \/ value = None
    \/ value.kind = "str" /\ value.text = ""
    \/ value.kind = "number" /\ value.v = 0
    \/ value.kind = "object" /\ DOMAIN value.d = {}

\* The strs of the model.
KnownStrings ==
    {"", "ambient_occlusion", "roughness", "metallic", "displacement",
     "alpha", "AO_2x", "Ambient Occlusion", "Roughness", "Metallic",
     "Displacement", "Alpha", "Ao 2X", "Rough", "ambient occlusion",
     "AO 2x"}

Chars(s) ==
    CASE s = "ambient_occlusion" ->
            <<"a", "m", "b", "i", "e", "n", "t", "_", "o", "c", "c", "l", "u", "s", "i", "o", "n">>
      [] s = "roughness" ->
            <<"r", "o", "u", "g", "h", "n", "e", "s", "s">>
      [] s = "metallic" ->
            <<"m", "e", "t", "a", "l", "l", "i", "c">>
      [] s = "displacement" ->
            <<"d", "i", "s", "p", "l", "a", "c", "e", "m", "e", "n", "t">>
      [] s = "alpha" ->
            <<"a", "l", "p", "h", "a">>
      [] s = "AO_2x" ->
            <<"A", "O", "_", "2", "x">>
      [] s = "Ambient Occlusion" ->
            <<"A", "m", "b", "i", "e", "n", "t", " ", "O", "c", "c", "l", "u", "s", "i", "o", "n">>
      [] s = "Roughness" ->
            <<"R", "o", "u", "g", "h", "n", "e", "s", "s">>
      [] s = "Metallic" ->
            <<"M", "e", "t", "a", "l", "l", "i", "c">>
      [] s = "Displacement" ->
            <<"D", "i", "s", "p", "l", "a", "c", "e", "m", "e", "n", "t">>
      [] s = "Alpha" ->
            <<"A", "l", "p", "h", "a">>
      [] s = "Ao 2X" ->
            <<"A", "o", " ", "2", "X">>
      [] s = "Rough" ->
            <<"R", "o", "u", "g", "h">>
      [] s = "ambient occlusion" ->
            <<"a", "m", "b", "i", "e", "n", "t", " ", "o", "c", "c", "l", "u", "s", "i", "o", "n">>
      [] s = "AO 2x" ->
            <<"A", "O", " ", "2", "x">>
      [] OTHER -> <<>>

Join(cs) == CHOOSE s \in KnownStrings : Chars(s) = cs

LowerCase ==
    <<"a", "b", "c", "d", "e", "f", "g", "h", "i", "j", "k", "l", "m", "n", "o", "p", "q", "r", "s", "t", "u", "v", "w", "x", "y", "z">>
UpperCase ==
    <<"A", "B", "C", "D", "E", "F", "G", "H", "I", "J", "K", "L", "M", "N", "O", "P", "Q", "R", "S", "T", "U", "V", "W", "X", "Y", "Z">>

IsCased(c) == \E i \in 1..26 : c = LowerCase[i] \/ c = UpperCase[i]
Upper(c) == IF \E i \in 1..26 : c = LowerCase[i]
            THEN UpperCase[CHOOSE i \in 1..26 : c = LowerCase[i]] ELSE c
Lower(c) == IF \E i \in 1..26 : c = UpperCase[i]
            THEN LowerCase[CHOOSE i \in 1..26 : c = UpperCase[i]] ELSE c

\* str.replace(old, new) for single characters
Replace(s, old, new) ==
    Join(Tup([i \in DOMAIN Chars(s) |->
                IF Chars(s)[i] = old THEN new ELSE Chars(s)[i]]))

\* str.title(): a letter that follows a letter is made lower case, every
\* other letter upper case.
Title(s) ==
    Join(Tup([i \in DOMAIN Chars(s) |->
                IF i > 1 /\ IsCased(Chars(s)[i - 1])
                THEN Lower(Chars(s)[i]) ELSE Upper(Chars(s)[i])]))

---------------------------------------------------------------------------
(* ChannelMap and PackingTemplate.  default_value is held in thousandths   *)
(* (0.5 is 500), so that default_value * 255 is exact integer arithmetic.  *)

\* map_type.replace('_', ' ').title()
AutoDescription(map_type) == Title(Replace(map_type, "_", " "))

\* A ChannelMap made without a description.
ChannelMapOf(map_type, default_value) ==
    [kind |-> "ChannelMap", map_type |-> map_type, default_value |-> default_value,
     description |-> AutoDescription(map_type)]

\* The object ChannelMap.__init__ leaves for arguments it accepts: a str
\* argument is held as the str, one of another type as the value.
ChannelMapObject(map_type, default_value, description) ==
    [kind |-> "ChannelMap",
     map_type |-> IF map_type.kind = "str" THEN map_type.text ELSE map_type,
     default_value |-> default_value,
     description |-> IF Falsy(description) THEN AutoDescription(map_type.text)
                     ELSE IF description.kind = "str" THEN description.text
                     ELSE description]

\* A variant of ChannelMap whose range check excludes both bounds.
ChannelMapExclusive(map_type, default_value, description) ==
    IF ~(0 < default_value /\ default_value < 1000)
    THEN Raise("ValueError", "default_value must be between 0.0 and 1.0")
    ELSE IF Falsy(description) /\ map_type.kind # "str"
    THEN Raise("AttributeError", "object has no attribute 'replace'")
    ELSE Ok(ChannelMapObject(map_type, default_value, description))

\* ChannelMap.__init__(map_type, default_value, description)
ChannelMap(map_type, default_value, description) ==
    IF ~(0 <= default_value /\ default_value <= 1000)
    THEN Raise("ValueError", "default_value must be between 0.0 and 1.0")
    ELSE IF Falsy(description) /\ map_type.kind # "str"
    THEN Raise("AttributeError", "object has no attribute 'replace'")
    ELSE Ok(ChannelMapObject(map_type, default_value, description))

\* A Python dict whose order matters: the sequence of its <<key, value>>
\* items in insertion order, the keys distinct.
Dict(items) == [kind |-> "dict", items |-> items]
DictKeys(items) == [i \in DOMAIN items |-> items[i][1]]
KeySet(items) == {items[i][1] : i \in DOMAIN items}
ItemOf(items, key) == items[CHOOSE i \in DOMAIN items : items[i][1] = key][2]

\* A variant of DictUpdate that inserts every updated key anew, at the end.
DictReinsert(items, other) ==
    SelectSeq(items, LAMBDA it : it[1] \notin KeySet(other)) \o other

\* dict.update(other): a key already present keeps its position and takes
\* the new value, a new key is appended.
DictUpdate(items, other) ==
    Tup([i \in DOMAIN items |->
           IF items[i][1] \in KeySet(other)
           THEN <<items[i][1], ItemOf(other, items[i][1])>>
           ELSE items[i]])
    \o SelectSeq(other, LAMBDA it : it[1] \notin KeySet(items))

\* A variant of PackingTemplate that takes every key it is given.
PackingTemplateUnchecked(name, description, channels) ==
    LET own == DictUpdate(<< <<"R", None>>, <<"G", None>>, <<"B", None>>, <<"A", None>> >>,
                          IF channels = None THEN <<>> ELSE channels.items)
    IN  Ok([kind |-> "PackingTemplate", name |-> name, description |-> description,
            keys |-> DictKeys(own),
            channels |-> Fcn([key \in KeySet(own) |-> ItemOf(own, key)])])

\* PackingTemplate.__init__(name, description, channels): the object has
\* the fields name, description and channels, the latter held as the
\* sequence of its keys (insertion order) and the function key -> value.
PackingTemplate(name, description, channels) ==
    LET given == IF channels = None THEN <<>> ELSE channels.items
        invalid_keys == KeySet(given) \ {"R", "G", "B", "A"}
        own == DictUpdate(<< <<"R", None>>, <<"G", None>>, <<"B", None>>, <<"A", None>> >>,
                          given)
    IN  IF given # <<>> /\ invalid_keys # {}
        THEN Raise("ValueError", "Invalid channel keys")
        ELSE Ok([kind |-> "PackingTemplate", name |-> name, description |-> description,
                 keys |-> DictKeys(own),
                 channels |-> Fcn([key \in KeySet(own) |-> ItemOf(own, key)])])

\* The template of the given name, without description, whose slot key holds
\* channels[key].
TemplateOf(name, channels) ==
    PackingTemplate(name, "",
        Dict(Tup([i \in 1..4 |-> <<Slots[i], channels[Slots[i]]>>]))).val

\* PackingTemplate has no __eq__: a == b is object.__eq__, true of two
\* references exactly when they are the same object.
ObjectEq(a, b) == a = b

\* PackingTemplate.get_channel(key)
get_channel(template, key) ==
    IF key \notin SlotSet THEN Raise("KeyError", "Invalid channel key")
    ELSE Ok(template.channels[key])

\* A variant of is_channel_used that reports every slot as used.
AlwaysUsed(template, key) ==
    IF key \notin SlotSet THEN Raise("KeyError", "Invalid channel key")
    ELSE Ok(TRUE)

\* PackingTemplate.is_channel_used(key)
is_channel_used(template, key) ==
    IF key \notin SlotSet THEN Raise("KeyError", "Invalid channel key")
    ELSE Ok(template.channels[key] # None)

\* PackingTemplate.is_rgba()
is_rgba(template) == is_channel_used(template, "A").val

\* PackingTemplate.get_used_channels(): the used slot keys, in the order of
\* the channels dictionary (R, G, B, A)
get_used_channels(template) ==
    SelectSeq(template.keys, LAMBDA key : template.channels[key] # None)

---------------------------------------------------------------------------
(* Image files *)

\* load_image(path) against the files of the model's file system
load_image(files, path) ==
    IF path \notin DOMAIN files
    THEN Raise("FileNotFoundError", "Image file not found")
    ELSE IF files[path].kind # "image"
    THEN Raise("ImageLoadError", "Failed to load image")
    ELSE Ok(files[path])

---------------------------------------------------------------------------
(* Template loader.  A template file is missing, holds text that is not    *)
(* JSON, or holds a JSON value; the "channels" object, whose members are   *)
(* read in order, is held as a Dict.                                        *)

MissingFile == [kind |-> "missing"]
TextFile == [kind |-> "text"]
JsonFile(data) == [kind |-> "json", data |-> data]

\* float(x) of a JSON value: a number (held in thousandths), an integer too
\* large for a float, a string that spells a number, or anything else.
Float(x) ==
    CASE x.kind = "number" -> Ok(x.v)
      [] x.kind = "bigint" -> Raise("OverflowError", "int too large to convert to float")
      [] x.kind = "str" ->
            (CASE x.text = "0.5" -> Ok(500)
               [] x.text = "1.5" -> Ok(1500)
               [] OTHER -> Raise("ValueError", "could not convert string to float"))
      [] OTHER -> Raise("TypeError", "float() argument must be a string or a number")

\* except (ValueError, TypeError) as e: raise TemplateValidationError(...)
Caught(res, msg) ==
    IF res.err.type \in {"ValueError", "TypeError"}
    THEN Raise("TemplateValidationError", msg)
    ELSE res

\* load_template, the body of its loop over channels_data for one valid
\* slot key: the slot's value (None or a ChannelMap), or the error raised.
LoadChannelInfo(channel_info) ==
    LET default == Float(channel_info.d["default"])
        made == ChannelMap(channel_info.d["type"], default.val,
                           IF "description" \in DOMAIN channel_info.d
                           THEN channel_info.d["description"] ELSE None)
    IN  IF channel_info = None THEN Ok(None)
        ELSE IF channel_info.kind # "object"
        THEN Raise("TemplateValidationError", "Channel must be a dictionary or null")
        ELSE IF "type" \notin DOMAIN channel_info.d
        THEN Raise("TemplateValidationError", "Channel missing required field: 'type'")
        ELSE IF "default" \notin DOMAIN channel_info.d
        THEN Raise("TemplateValidationError", "Channel missing required field: 'default'")
        ELSE IF Failed(default) THEN Caught(default, "Invalid channel data")
        ELSE Caught(made, "Invalid channel data")

\* The Python value of a JSON value: a str as the str.
PyValue(value) == IF value.kind = "str" THEN value.text ELSE value

\* load_template(path), path naming the given file
load_template(file) ==
    LET data == file.data
        channels_data == IF "channels" \in DOMAIN data.d THEN data.d["channels"]
                         ELSE Dict(<<>>)
        items == channels_data.items
        step(i) == IF items[i][1] \notin {"R", "G", "B", "A"}
                   THEN Raise("TemplateValidationError", "Invalid channel key")
                   ELSE LoadChannelInfo(items[i][2])
        bad == SelectSeq(Range(Len(items)), LAMBDA i : Failed(step(i)))
        channels == DictUpdate(<<>>, Tup([i \in DOMAIN items |->
                                            <<items[i][1], step(i).val>>]))
        made == PackingTemplate(PyValue(data.d["name"]), PyValue(data.d["description"]),
                                IF channels = <<>> THEN None ELSE Dict(channels))
    IN  IF file.kind = "missing"
        THEN Raise("FileNotFoundError", "Template file not found")
        ELSE IF file.kind = "text"
        THEN Raise("TemplateValidationError", "Invalid JSON in template file")
        ELSE IF data.kind # "object"
        THEN Raise("TemplateValidationError", "must contain a JSON object")
        ELSE IF "name" \notin DOMAIN data.d
        THEN Raise("TemplateValidationError", "missing required field: 'name'")
        ELSE IF "description" \notin DOMAIN data.d
        THEN Raise("TemplateValidationError", "missing required field: 'description'")
        ELSE IF channels_data.kind # "dict"
        THEN Raise("TemplateValidationError", "Template 'channels' must be a dictionary")
        ELSE IF bad # <<>> THEN step(bad[1])
        ELSE Caught(made, "Failed to create template")

\* The member save_template writes for one used slot: type and default,
\* and the description when it is not the one ChannelMap generates.
SavedChannel(channel_map) ==
    IF channel_map.description # AutoDescription(channel_map.map_type)
    THEN Object([type |-> Str(channel_map.map_type),
                 default |-> Number(channel_map.default_value),
                 description |-> Str(channel_map.description)])
    ELSE Object([type |-> Str(channel_map.map_type),
                 default |-> Number(channel_map.default_value)])

\* A variant of save_template that writes no description of a channel.
SaveWithoutDescriptions(template) ==
    LET used == SelectSeq(template.keys, LAMBDA key : template.channels[key] # None)
    IN  IF template.kind # "PackingTemplate"
        THEN Raise("TypeError", "Expected PackingTemplate instance")
        ELSE Ok(JsonFile(Object(
                 [name |-> Str(template.name),
                  description |-> Str(template.description),
                  channels |-> Dict(Tup([i \in DOMAIN used |->
                      <<used[i],
                        Object([type |-> Str(template.channels[used[i]].map_type),
                                default |-> Number(template.channels[used[i]].default_value)])>>]))])))

\* save_template(template, path): the file it writes, or the error raised.
save_template(template) ==
    LET used == SelectSeq(template.keys, LAMBDA key : template.channels[key] # None)
    IN  IF template.kind # "PackingTemplate"
        THEN Raise("TypeError", "Expected PackingTemplate instance")
        ELSE Ok(JsonFile(Object(
                 [name |-> Str(template.name),
                  description |-> Str(template.description),
                  channels |-> Dict(Tup([i \in DOMAIN used |->
                      <<used[i], SavedChannel(template.channels[used[i]])>>]))])))

---------------------------------------------------------------------------
(* pack_texture_from_template *)

\* The fallback resolution when no texture is supplied.
DefaultResolution == 1024

\* A variant of DictGet that never finds the key.
DictMiss(d, key) == None

\* dict.get(key)
DictGet(d, key) == IF key \in DOMAIN d THEN d[key] ELSE None

\* A variant of DefaultValueUint8 that rounds to nearest: round(d * 255).
DefaultValueRounded(channel_map) ==
    (channel_map.default_value * 255 + 500) \div 1000

\* int(default_value * 255)
DefaultValueUint8(channel_map) == (channel_map.default_value * 255) \div 1000

\* A variant of ResolveSlot that goes through every entry of textures
\* first and refuses the call when one of them is of an invalid type.
ResolveSlotAllEntries(files, textures, template, key) ==
    LET channel_map == template.channels[key]
        texture_source == DictGet(textures, channel_map.map_type)
        loaded == IF texture_source.kind = "str"
                  THEN load_image(files, texture_source.path)
                  ELSE Ok(texture_source)
        e == validate_channel_data(texture_source, None, FALSE)
    IN  IF \E k \in DOMAIN textures :
               textures[k].kind \notin {"None", "str", "image", "ndarray"}
        THEN Raise("TypeError", "Invalid texture source")
        ELSE IF channel_map = None THEN Ok(None)
        ELSE IF texture_source = None THEN Ok(None)
        ELSE IF texture_source.kind \in {"str", "image"}
        THEN (IF Failed(loaded) THEN loaded ELSE to_grayscale(loaded.val))
        ELSE IF e # NoError THEN [err |-> e, val |-> None]
        ELSE Ok(texture_source)

\* The first loop: the array of one slot (None when the slot is unused or
\* no texture is given for its map type), or the error raised for it.
ResolveSlot(files, textures, template, key) ==
    LET channel_map == template.channels[key]
        texture_source == DictGet(textures, channel_map.map_type)
        loaded == IF texture_source.kind = "str"
                  THEN load_image(files, texture_source.path)
                  ELSE Ok(texture_source)
        e == validate_channel_data(texture_source, None, FALSE)
    IN  IF channel_map = None THEN Ok(None)
        ELSE IF texture_source = None THEN Ok(None)
        ELSE IF texture_source.kind \in {"str", "image"}
        THEN (IF Failed(loaded) THEN loaded ELSE to_grayscale(loaded.val))
        ELSE IF texture_source.kind = "ndarray"
        THEN (IF e # NoError THEN [err |-> e, val |-> None] ELSE Ok(texture_source))
        ELSE Raise("TypeError", "Invalid texture source")

\* The arrays handed to pack_channels, [err, val] with val a function of the
\* slot key: the resolved textures, the used slots without a texture filled
\* with the template default at the target resolution, the unused slots None.
ChannelArrays(files, textures, template) ==
    LET rs == Fcn([key \in SlotSet |-> ResolveSlot(files, textures, template, key)])
        bad == SelectSeq(Slots, LAMBDA key : Failed(rs[key]))
        valid_textures == SelectSeq(Slots, LAMBDA key : rs[key].val # None)
        errs == Fcn([key \in SlotSet |->
                       IF rs[key].val = None THEN NoError
                       ELSE validate_channel_data(rs[key].val, None, FALSE)])
        bad2 == SelectSeq(valid_textures, LAMBDA key : errs[key] # NoError)
        sides == {<<rs[valid_textures[k]].val.h, rs[valid_textures[k]].val.w>> :
                     k \in DOMAIN valid_textures}
                 \cup {<<0, 0>>}
        target_height == IF valid_textures = <<>> THEN DefaultResolution
                         ELSE MaxOf({hw[1] : hw \in sides})
        target_width == IF valid_textures = <<>> THEN DefaultResolution
                        ELSE MaxOf({hw[2] : hw \in sides})
        fill(key) == IF rs[key].val = None /\ template.channels[key] # None
                     THEN NpFull(target_height, target_width,
                                 DefaultValueUint8(template.channels[key]))
                     ELSE rs[key].val
    IN  IF template.kind # "PackingTemplate"
        THEN Raise("TypeError", "Expected PackingTemplate instance")
        ELSE IF bad # <<>> THEN rs[bad[1]]
        ELSE IF bad2 # <<>> THEN [err |-> errs[bad2[1]], val |-> None]
        ELSE Ok(Fcn([key \in SlotSet |-> fill(key)]))

\* A variant of PackResolved that hands the G and B arrays over in each
\* other's place.
PackSwapped(ca) ==
    IF Failed(ca) THEN ca
    ELSE pack_channels(ca.val["R"], ca.val["B"], ca.val["G"], ca.val["A"])

\* The last step of pack_texture_from_template: pack_channels on the arrays.
PackResolved(ca) ==
    IF Failed(ca) THEN ca
    ELSE pack_channels(ca.val["R"], ca.val["G"], ca.val["B"], ca.val["A"])

\* A variant of pack_texture_from_template that refuses to pack defaults
\* alone.
PackTexturesRequired(files, textures, template) ==
    IF \A mt \in DOMAIN textures : textures[mt] = None
    THEN Raise("ValueError", "At least one channel must be provided (not None)")
    ELSE PackResolved(ChannelArrays(files, textures, template))

\* pack_texture_from_template(textures, template)
pack_texture_from_template(files, textures, template) ==
    PackResolved(ChannelArrays(files, textures, template))

---------------------------------------------------------------------------
(* Unpacking engine *)

\* Image.convert(mode)
Convert(image, mode) ==
    CASE mode = image.mode -> image
      [] mode = "RGB" -> ConvertRGB(image)
      [] mode = "RGBA" -> ConvertRGBA(image)

\* A variant of extract_channel that converts every image to RGBA first,
\* so that slot A of an image without alpha reads as opaque.
ExtractAfterConvert(image, channel) ==
    IF channel \notin SlotSet THEN Raise("ValueError", "Invalid channel key")
    ELSE Ok(ConvertRGBA(image).planes[ChannelIndex(channel)])

\* extract_channel(image, channel)
extract_channel(image, channel) ==
    LET target == IF image.mode = "L" THEN "RGB"
                  ELSE IF image.mode \notin {"RGB", "RGBA"}
                  THEN (IF channel = "A" THEN "RGBA" ELSE "RGB")
                  ELSE image.mode
    IN  IF image.kind # "image"
        THEN Raise("TypeError", "Expected PIL Image instance")
        ELSE IF channel \notin SlotSet
        THEN Raise("ValueError", "Invalid channel key")
        ELSE IF channel = "A" /\ image.mode # "RGBA"
        THEN Raise("ValueError", "Cannot extract alpha channel")
        ELSE Ok(Convert(image, target).planes[ChannelIndex(channel)])

\* A variant of ExtractedSlots that skips no slot.
AllUsedSlots(image, template) == get_used_channels(template)

\* The slots unpack_texture extracts: the used ones, slot A skipped when
\* the image is not RGBA.
ExtractedSlots(image, template) ==
    SelectSeq(get_used_channels(template),
              LAMBDA key : ~(key = "A" /\ image.mode # "RGBA"))

\* unpack_texture(image, template): [err, val] with val the dictionary of
\* map type -> array; a later slot of the same map type overwrites an
\* earlier one, and the automatic "alpha" entry is written last.
unpack_texture(image, template) ==
    LET slots == ExtractedSlots(image, template)
        ex == Fcn([key \in SlotSet |-> extract_channel(image, key)])
        bad == SelectSeq(slots, LAMBDA key : Failed(ex[key]))
        keys == {template.channels[slots[k]].map_type : k \in DOMAIN slots}
        last(mt) == LET ks == SelectSeq(slots,
                                LAMBDA key : template.channels[key].map_type = mt)
                    IN  ks[Len(ks)]
        auto == image.mode = "RGBA" /\ ~is_channel_used(template, "A").val
                /\ ~Failed(ex["A"])
        result == [mt \in keys \cup (IF auto THEN {"alpha"} ELSE {}) |->
                     IF auto /\ mt = "alpha" THEN ex["A"].val
                     ELSE ex[last(mt)].val]
    IN  IF image.kind # "image"
        THEN Raise("TypeError", "Expected PIL Image instance")
        ELSE IF template.kind # "PackingTemplate"
        THEN Raise("TypeError", "Expected PackingTemplate instance")
        ELSE IF bad # <<>> THEN ex[bad[1]]
        ELSE Ok(result)

---------------------------------------------------------------------------
(* What the operations leave of the objects the caller passed in *)

\* A variant of ArrayAfterNormalize in which from_grayscale clips in place,
\* np.clip(array, 0, 255, out=array).
ArrayClippedInPlace(arr, tw, th) ==
    IF (arr.w # tw \/ arr.h # th) /\ arr.dtype # "uint8"
    THEN NpClip(arr, 0, 255)
    ELSE arr

\* The caller's array arr once the loop of normalize_resolution has handled
\* it: an array at target size is appended as it is; another is read by
\* from_grayscale, where np.clip(...).astype(...) builds a new array and
\* binds it to the local name, and by Image.resize.  No statement assigns
\* to an element of arr.
ArrayAfterNormalize(arr, tw, th) == arr

\* The arguments r, g, b, a once pack_channels has returned or raised:
\* the arrays reach normalize_resolution only when every one is valid.
ArgumentsAfterPack(r, g, b, a) ==
    LET channels == <<r, g, b, a>>
        valid == {i \in 1..4 : channels[i] # None}
        ok == \A i \in valid : validate_channel_data(channels[i], None, FALSE) = NoError
        max_height == MaxOf({channels[i].h : i \in valid})
        max_width == MaxOf({channels[i].w : i \in valid})
    IN  IF valid = {} \/ ~ok THEN channels
        ELSE Tup([i \in 1..4 |->
                    IF channels[i] = None THEN None
                    ELSE ArrayAfterNormalize(channels[i], max_width, max_height)])

\* The textures dictionary once pack_texture_from_template has returned or
\* raised, ca being its channel_arrays: every item assignment of the
\* function writes channel_arrays, its own dictionary; the arrays of
\* textures are the very objects handed to pack_channels.
TexturesAfterPack(textures, template, ca) ==
    LET after == ArgumentsAfterPack(ca.val["R"], ca.val["G"], ca.val["B"], ca.val["A"])
        slot(mt) == CHOOSE i \in 1..4 :
                       /\ template.channels[Slots[i]] # None
                       /\ template.channels[Slots[i]].map_type = mt
    IN  IF Failed(ca) THEN textures
        ELSE [mt \in DOMAIN textures |->
                IF textures[mt].kind = "ndarray" THEN after[slot(mt)]
                ELSE textures[mt]]

\* The image once extract_channel has returned or raised: image.convert
\* returns a new image, bound to the local name, and np.array copies.
ImageAfterExtract(image) == image

\* The template once get_channel, is_channel_used, is_rgba and
\* get_used_channels have returned: they read self.channels, and
\* get_used_channels builds the dictionary it returns.
TemplateAfterQueries(template) == template

---------------------------------------------------------------------------
(* Inputs *)

Shapes == {hw \in (1..MaxPixels) \X (1..MaxPixels) : hw[1] * hw[2] <= MaxPixels}

\* Sample k of an 8-bit test pattern: every position differs.
PatternU8(k, y, x) == (40 * k + 70 * (y - 1) + 25 * (x - 1)) % 256

\* Samples of a wider element type: below 0, inside 0..255 and above 255.
PatternWide(k, y, x) == 150 * ((k + y + x) % 3) - 20

Buffer(dtype, hw, k) ==
    IF dtype = "uint8"
    THEN NdArray(dtype, hw[1], hw[2],
                 [y \in 1..hw[1], x \in 1..hw[2] |-> PatternU8(k, y, x)])
    ELSE NdArray(dtype, hw[1], hw[2],
                 [y \in 1..hw[1], x \in 1..hw[2] |-> PatternWide(k, y, x)])

WideDtypes == {"int16", "float64"}

\* What validate_channel_data refuses: a non-array (a list), a 3-D array,
\* an empty array, a boolean array.
BadInput(k) ==
    CASE k = 1 -> [kind |-> "list"]
      [] k = 2 -> [Buffer("uint8", <<1, 1>>, k) EXCEPT !.ndim = 3]
      [] k = 3 -> [kind |-> "ndarray", dtype |-> "uint8", ndim |-> 2, h |-> 0,
                   w |-> 1, uniform |-> FALSE, px |-> <<>>]
      [] k = 4 -> [Buffer("uint8", <<1, 1>>, k) EXCEPT !.dtype = "bool"]

\* The arguments of one pack_channels call: argument k is absent, an 8-bit
\* buffer, a buffer of the call's wider element type d, or a refused input.
ChannelArg(k, d) ==
    {None, BadInput(k)}
    \cup {Buffer(dt, hw, k) : dt \in {"uint8", d}, hw \in Shapes}

Modes == {"1", "L", "LA", "RGB", "RGBA", "CMYK"}

Bands(mode) == CASE mode \in {"1", "L"} -> 1 [] mode = "LA" -> 2
                 [] mode = "RGB" -> 3 [] OTHER -> 4

Image(mode, hw) ==
    Img(mode, hw[2], hw[1],
        Tup([c \in 1..Bands(mode) |->
            IF mode = "1"
            THEN NdArray("uint8", hw[1], hw[2],
                         [y \in 1..hw[1], x \in 1..hw[2] |-> 255 * ((y + x) % 2)])
            ELSE Buffer("uint8", hw, c)]))

Images == {Image(mode, hw) : mode \in Modes, hw \in Shapes}

\* The files load_image can open; every other path does not exist.
Files == [p \in {"rough.png", "broken.png"} |->
            IF p = "rough.png" THEN Image("RGB", <<1, 1>>)
            ELSE [kind |-> "corrupt"]]

PathOf(p) == [kind |-> "str", path |-> p]

\* The predefined channel types (map type, default in thousandths).
AMBIENT_OCCLUSION == ChannelMapOf("ambient_occlusion", 1000)
ROUGHNESS == ChannelMapOf("roughness", 500)
METALLIC == ChannelMapOf("metallic", 0)
DISPLACEMENT == ChannelMapOf("displacement", 500)
ALPHA == ChannelMapOf("alpha", 1000)

ChannelMaps == {AMBIENT_OCCLUSION, ROUGHNESS, METALLIC}
MapTypes == {cm.map_type : cm \in ChannelMaps}
TypeIndex(mt) == CASE mt = "ambient_occlusion" -> 1 [] mt = "roughness" -> 2
                   [] mt = "metallic" -> 3 [] OTHER -> 4

Templates == {TemplateOf("T", ch) : ch \in [SlotSet -> ChannelMaps \cup {None}]}

\* Templates that give the map type "alpha" to a colour slot, without and
\* with a slot A.
AlphaTemplates ==
    {TemplateOf("T", [key \in SlotSet |->
                        CASE key = at -> ALPHA
                          [] key = "G" /\ at # "G" -> ROUGHNESS
                          [] key = "A" -> a
                          [] OTHER -> None]) :
        at \in {"R", "G", "B"}, a \in {None, METALLIC}}

\* The texture sources given under one map type: none, an 8-bit buffer of
\* any shape, a 16-bit buffer, and two sources of another kind.
TextureSources(mt) ==
    {None, Buffer("int16", <<1, 1>>, TypeIndex(mt))}
    \cup {Buffer("uint8", hw, TypeIndex(mt)) : hw \in Shapes}
    \cup (CASE mt = "ambient_occlusion" -> {Image("RGB", <<1, 2>>), [kind |-> "int"]}
            [] mt = "roughness" -> {PathOf("rough.png"), PathOf("missing.png")}
            [] OTHER -> {BadInput(2), PathOf("broken.png")})

UsedTypes(template) ==
    {template.channels[key].map_type : key \in {k \in SlotSet : template.channels[k] # None}}

\* The sources a caller gives under map type mt for template t: nothing
\* when no used slot of t has that map type.
SourcesFor(t, mt) == IF mt \in UsedTypes(t) THEN TextureSources(mt) ELSE {None}

\* What a caller does with the channels unpack_texture returned for the
\* image it packed with template t: it replaces one of them by a constant
\* buffer of the same shape and packs again with t, or, t being the ORM
\* template, it packs ambient occlusion and roughness together with a new
\* constant displacement buffer under the ORD template.
ORM == [key \in SlotSet |-> CASE key = "R" -> AMBIENT_OCCLUSION
                              [] key = "G" -> ROUGHNESS
                              [] key = "B" -> METALLIC
                              [] OTHER -> None]

ORD == [ORM EXCEPT !["B"] = DISPLACEMENT]

RepackJobs(channels, t) ==
    {[kind |-> "replace", key |-> mt, template |-> t,
      textures |-> [channels EXCEPT
                      ![mt] = NpFull(channels[mt].h, channels[mt].w, 200)]] :
        mt \in DOMAIN channels}
    \cup (IF t.channels = ORM
          THEN {[kind |-> "cross", key |-> "displacement",
                 template |-> TemplateOf("ORD", ORD),
                 textures |-> [mt \in {"ambient_occlusion", "roughness", "displacement"} |->
                                 IF mt = "displacement"
                                 THEN NpFull(channels["roughness"].h,
                                             channels["roughness"].w, 180)
                                 ELSE channels[mt]]]}
          ELSE {})

\* What validate_channel_data is called with: the refused inputs, an empty
\* array of a numeric type, and buffers of every element type and shape.
ValidatedData ==
    {BadInput(k) : k \in 1..4}
    \cup {[BadInput(3) EXCEPT !.dtype = "float64"]}
    \cup {Buffer(dt, hw, 1) : dt \in {"uint8"} \cup WideDtypes, hw \in Shapes}

\* The expected_shape argument: absent, or (height, width).
ExpectedShapes ==
    {None, Shape(0, 1)} \cup {Shape(hw[1], hw[2]) : hw \in Shapes}

\* Longest list given to the validators of lists.
MaxEntries == 3

\* The lists of up to MaxEntries elements of S.
Lists(S) == UNION {[1..n -> S] : n \in 0..MaxEntries}

\* The entries of the list validate_images_for_packing is given: absent,
\* a grayscale image of any shape, or an array where an image is expected.
ImageEntries ==
    {None, Buffer("uint8", <<1, 1>>, 1)} \cup {Image("L", hw) : hw \in Shapes}

\* The entries of the list validate_arrays_for_packing is given: absent,
\* an 8-bit buffer of any shape, a 16-bit buffer, or a 3-D array.
ArrayEntries ==
    {None, Buffer("int16", <<1, 1>>, 2), BadInput(2)}
    \cup {Buffer("uint8", hw, 1) : hw \in Shapes}

\* The lists normalize_resolution is given: empty, or one or two arrays,
\* the k-th an 8-bit or a 16-bit buffer of any shape with the samples of
\* pattern k.
NormalizedLists ==
    {<<>>}
    \cup {<<a>> : a \in ChannelArg(1, "int16") \ {None, BadInput(1)}}
    \cup {<<a, b>> : a \in ChannelArg(1, "int16") \ {None, BadInput(1)},
                     b \in ChannelArg(2, "int16") \ {None, BadInput(2)}}

\* target_size = (width, height), each from -1 to the largest side.
TargetSizes == (-1..MaxPixels) \X (-1..MaxPixels)

\* Largest number of PackingTemplate objects alive at once.
MaxTemplates == 2

\* The default values given to ChannelMap, in thousandths: inside, on and
\* outside the bounds of [0.0, 1.0].
DefaultValues == {0 - 100, 0 - 1, 0, 1, 500, 999, 1000, 1001, 1500}

\* The values of one slot in the "channels" object of a template file.
ChannelInfos ==
    {None, [kind |-> "array"], Object([type |-> Str("roughness")]),
     Object([default |-> Number(500)])}
    \cup {Object([type |-> Str("roughness"), default |-> x]) :
             x \in {Number(v) : v \in DefaultValues}
                   \cup {Str("0.5"), Str("1.5"), Str("half"), None}}

\* The descriptions given to ChannelMap: none, the empty one, one of the
\* caller's, and one that reads as the generated one.
Descriptions == {None, Str(""), Str("Rough"), Str("Roughness")}

\* More values of one slot: with a description, with a type that is not a
\* str, with a default that is an integer of some hundred digits.
DescribedInfos ==
    {Object([type |-> Str("roughness"), default |-> Number(500), description |-> d]) :
        d \in Descriptions}
    \cup {Object([type |-> Str("AO_2x"), default |-> Number(1000)]),
          Object([type |-> Number(5), default |-> Number(500)]),
          Object([type |-> Number(5), default |-> Number(1500)]),
          Object([type |-> Number(5), default |-> Number(500), description |-> Str("")]),
          Object([type |-> Number(5), default |-> Number(500), description |-> Str("Rough")]),
          Object([type |-> Str("roughness"), default |-> [kind |-> "bigint"]])}

\* The members of the "channels" object of a template file, up to
\* MaxMembers of them, their keys distinct.
MaxMembers == 2

MemberKeys == {"R", "A", "X"}

Members == MemberKeys \X (ChannelInfos \cup DescribedInfos)

MemberLists ==
    {ms \in UNION {[1..n -> Members] : n \in 0..MaxMembers} :
        \A i, j \in DOMAIN ms : i # j => ms[i][1] # ms[j][1]}

\* The template files: a missing one, text that is not JSON, JSON values
\* that are no object, objects without name or description or with a name
\* that is no str, with "channels" absent, not an object, or an object.
TemplateFiles ==
    {MissingFile, TextFile, JsonFile([kind |-> "array"]), JsonFile(Number(3)),
     JsonFile(None),
     JsonFile(Object([description |-> Str("packed")])),
     JsonFile(Object([name |-> Str("ORM")])),
     JsonFile(Object([name |-> Str("ORM"), description |-> Str("packed")])),
     JsonFile(Object([name |-> Number(7), description |-> Str("packed")])),
     JsonFile(Object([name |-> Str("ORM"), description |-> Str("packed"),
                      channels |-> [kind |-> "array"]])),
     JsonFile(Object([name |-> Str("ORM"), channels |-> Dict(<< <<"X", None>> >>)]))}
    \cup {JsonFile(Object([name |-> Str("ORM"), description |-> Str("packed"),
                           channels |-> Dict(ms)])) : ms \in MemberLists}

\* The (name, description) pairs and the channels arguments given to
\* PackingTemplate: no dict, or a dict of up to two of the items below in
\* either order.
TemplateNames == {<<"ORM", "packed">>, <<"ORM", "other">>, <<"ORD", "packed">>}

CtorItems == {<<"R", AMBIENT_OCCLUSION>>, <<"G", None>>, <<"A", METALLIC>>,
              <<"r", ROUGHNESS>>}

CtorChannels ==
    {None, Dict(<<>>)}
    \cup {Dict(<<it>>) : it \in CtorItems}
    \cup {Dict(<<its[1], its[2]>>) :
             its \in {p \in CtorItems \X CtorItems : p[1][1] # p[2][1]}}

\* The templates given to save_template: made by the constructors, with
\* generated descriptions and with the caller's, with used and unused slots.
SavedChannelMaps ==
    {AMBIENT_OCCLUSION}
    \cup {ChannelMap(Str(mt), dv, d).val :
             mt \in {"roughness", "AO_2x"}, dv \in {0, 500, 1000}, d \in Descriptions}

SavedTemplates ==
    {PackingTemplate(nd[1], nd[2],
                     Dict(<< <<"R", r>>, <<"B", b>>, <<"A", a>> >>)).val :
        nd \in TemplateNames, r \in SavedChannelMaps \cup {None},
        b \in {None, ChannelMap(Str("metallic"), 0, Str("Rough")).val},
        a \in {None, METALLIC}}

---------------------------------------------------------------------------
(* State *)

VARIABLES
    pc,               \* the last operation called ("idle" before any)
    channels_in,      \* pack_channels: the arguments <<r, g, b, a>>
    textures,         \* pack_texture_from_template: the textures dictionary
    template,         \* pack_texture_from_template: the template
    channel_arrays,   \* pack_texture_from_template: the arrays it hands on
    packed,           \* what the packing call returned or raised
    image,            \* the image unpack_texture and extract_channel read
    unpack_template,  \* unpack_texture: the template
    unpacked,         \* what unpack_texture returned or raised
    channel,          \* extract_channel: the channel key
    extracted,        \* what extract_channel returned or raised
    images,           \* get_max_resolution: the list of images
    max_resolution,   \* what get_max_resolution returned or raised
    ctor,             \* the arguments of the last constructor call
    constructed,      \* what the last constructor call returned or raised
    heap,             \* the PackingTemplate objects alive; a reference to
                      \* one is its position
    query,            \* what the last query or comparison of templates gave
    passed,           \* the caller's objects as they were when passed in
    repack,           \* what the caller changed before it packed again
    variants,         \* pack_texture_from_template: what it gives for the
                      \* same textures with one more entry
    call,             \* the arguments of the last call of a validator, of
                      \* normalize_resolution or of the template loader
    returned,         \* what that call returned or raised
    template_file     \* the file save_template wrote

enginevars == <<channels_in, textures, template, channel_arrays, packed, image,
                unpack_template, unpacked, channel, extracted, images,
                max_resolution>>

objvars == <<ctor, constructed, heap, query>>

callvars == <<call, returned, template_file>>

vars == <<pc, enginevars, objvars, passed, repack, variants, callvars>>

Init ==
    /\ pc = "idle"
    /\ channels_in = None
    /\ textures = None
    /\ template = None
    /\ channel_arrays = None
    /\ packed = None
    /\ image = None
    /\ unpack_template = None
    /\ unpacked = None
    /\ channel = None
    /\ extracted = None
    /\ images = None
    /\ max_resolution = None
    /\ ctor = None
    /\ constructed = None
    /\ heap = <<>>
    /\ query = None
    /\ passed = [channels_in |-> None, textures |-> None, template |-> None,
                 image |-> None, unpack_template |-> None, object |-> None]
    /\ repack = None
    /\ variants = None
    /\ call = None
    /\ returned = None
    /\ template_file = None

\* A caller packs up to four buffers.
PackChannels ==
    /\ pc = "idle"
    /\ \E d \in WideDtypes :
       \E r \in ChannelArg(1, d), g \in ChannelArg(2, d),
          b \in ChannelArg(3, d), a \in ChannelArg(4, d) :
          /\ passed' = [passed EXCEPT !.channels_in = <<r, g, b, a>>]
          /\ channels_in' = ArgumentsAfterPack(r, g, b, a)
          /\ packed' = pack_channels(r, g, b, a)
    /\ image' = packed'.val
    /\ pc' = "pack_channels"
    /\ UNCHANGED <<objvars, repack, variants, callvars>>
    /\ UNCHANGED <<textures, template, channel_arrays, unpack_template,
                   unpacked, channel, extracted, images, max_resolution>>

\* The textures a caller has at the start for the map types of template t.
FirstJobs(t) ==
    {[kind |-> "first", key |-> None, template |-> t,
      textures |-> [mt \in UsedTypes(t) |->
                      CASE mt = "ambient_occlusion" -> src[1]
                        [] mt = "roughness" -> src[2]
                        [] OTHER -> src[3]]] :
        src \in SourcesFor(t, "ambient_occlusion")
                 \X SourcesFor(t, "roughness")
                 \X SourcesFor(t, "metallic")}

\* What a caller may hold besides the textures of the template's map
\* types: nothing, a value that is no texture source, an array with three
\* dimensions, a path that does not exist, a buffer larger than every
\* texture of the template's map types.
ExtraEntries == {"none", "int", "3d", "missing", "larger"}

ExtraEntry(id) ==
    CASE id = "int" -> [kind |-> "int"]
      [] id = "3d" -> BadInput(2)
      [] id = "missing" -> PathOf("missing.png")
      [] id = "larger" -> Buffer("uint8", <<MaxPixels, MaxPixels>>, 4)

\* A key of the textures dict that is the map type of no used slot of t.
OtherKey(t) == IF "metallic" \in UsedTypes(t) THEN "height" ELSE "metallic"

\* The textures dict with one more entry, under a key the template does
\* not use.
WithExtra(d, t, id) ==
    IF id = "none" THEN d
    ELSE [mt \in DOMAIN d \cup {OtherKey(t)} |->
            IF mt = OtherKey(t) THEN ExtraEntry(id) ELSE d[mt]]

\* A caller packs the textures it has for a template's map types, or packs
\* again, once, what unpack_texture returned for the image it packed.
PackTextureFromTemplate ==
    /\ \E t \in IF pc = "idle" THEN Templates
                ELSE IF /\ pc = "unpack_texture"
                        /\ template # None
                        /\ repack = None
                        /\ ~Failed(unpacked)
                THEN {template}
                ELSE {} :
       \E job \in IF pc = "idle" THEN FirstJobs(t)
                  ELSE RepackJobs(unpacked.val, t) :
          /\ passed' = [passed EXCEPT !.textures = job.textures,
                                      !.template = job.template]
          /\ template' = TemplateAfterQueries(job.template)
          /\ channel_arrays' = ChannelArrays(Files, job.textures, job.template)
          /\ textures' = TexturesAfterPack(job.textures, job.template, channel_arrays')
          /\ variants' = [id \in ExtraEntries |->
                            pack_texture_from_template(
                                Files, WithExtra(job.textures, t, id), job.template)]
          /\ packed' = variants'["none"]
          /\ repack' = IF job.kind = "first" THEN None
                       ELSE [kind |-> job.kind, key |-> job.key,
                             template |-> template, channels |-> unpacked.val]
    /\ image' = packed'.val
    /\ pc' = "pack_texture_from_template"
    /\ UNCHANGED <<objvars, callvars>>
    /\ UNCHANGED <<channels_in, unpack_template, unpacked, channel, extracted,
                   images, max_resolution>>

\* A caller opens a packed image of any mode.
LoadImage ==
    /\ pc = "idle"
    /\ image' \in Images
    /\ pc' = "load_image"
    /\ UNCHANGED <<objvars, passed, repack, variants, callvars>>
    /\ UNCHANGED <<channels_in, textures, template, channel_arrays, packed,
                   unpack_template, unpacked, channel, extracted, images,
                   max_resolution>>

\* unpack_texture on the image just packed, with the template it was packed
\* with, or on an opened image, with any template.
UnpackTexture ==
    /\ \E t \in IF pc = "load_image" THEN Templates \cup AlphaTemplates
                ELSE IF pc = "pack_texture_from_template" /\ ~Failed(packed)
                THEN {template} ELSE {} :
          /\ passed' = [passed EXCEPT !.image = image, !.unpack_template = t]
          /\ unpack_template' = TemplateAfterQueries(t)
          /\ unpacked' = unpack_texture(image, t)
    /\ image' = ImageAfterExtract(image)
    /\ pc' = "unpack_texture"
    /\ UNCHANGED <<objvars, repack, variants, callvars>>
    /\ UNCHANGED <<channels_in, textures, template, channel_arrays, packed,
                   channel, extracted, images, max_resolution>>

\* extract_channel on an opened image, with a valid or an invalid key.
ExtractChannel ==
    /\ pc = "load_image"
    /\ \E key \in SlotSet \cup {"X"} :
          /\ channel' = key
          /\ extracted' = extract_channel(image, key)
    /\ passed' = [passed EXCEPT !.image = image]
    /\ image' = ImageAfterExtract(image)
    /\ pc' = "extract_channel"
    /\ UNCHANGED <<objvars, repack, variants, callvars>>
    /\ UNCHANGED <<channels_in, textures, template, channel_arrays, packed,
                   unpack_template, unpacked, images, max_resolution>>

\* get_max_resolution on a list of up to two images.
GetMaxResolution ==
    /\ pc = "idle"
    /\ \E imgs \in {<<>>} \cup {<<i>> : i \in Images \cup {None}}
                   \cup {<<i, j>> : i \in Images, j \in Images \cup {None}} :
          /\ images' = imgs
          /\ max_resolution' = get_max_resolution(imgs)
    /\ pc' = "get_max_resolution"
    /\ UNCHANGED <<objvars, passed, repack, variants, callvars>>
    /\ UNCHANGED <<channels_in, textures, template, channel_arrays, packed,
                   image, unpack_template, unpacked, channel, extracted>>

\* validate_channel_data on an array or a refused input, with or without
\* an expected shape.
ValidateChannelData ==
    /\ pc = "idle"
    /\ \E data \in ValidatedData, expected_shape \in ExpectedShapes,
          allow_empty \in BOOLEAN :
          /\ call' = [data |-> data, expected_shape |-> expected_shape,
                      allow_empty |-> allow_empty]
          /\ returned' = validate_channel_data(data, expected_shape, allow_empty)
    /\ pc' = "validate_channel_data"
    /\ UNCHANGED <<enginevars, objvars, passed, repack, variants, template_file>>

\* validate_images_for_packing on a list of up to three entries.
ValidateImagesForPacking ==
    /\ pc = "idle"
    /\ \E entries \in Lists(ImageEntries), require_all \in BOOLEAN :
          /\ call' = [entries |-> entries, require_all |-> require_all]
          /\ returned' = validate_images_for_packing(entries, require_all)
    /\ pc' = "validate_images_for_packing"
    /\ UNCHANGED <<enginevars, objvars, passed, repack, variants, template_file>>

\* validate_arrays_for_packing on a list of up to three entries.
ValidateArraysForPacking ==
    /\ pc = "idle"
    /\ \E entries \in Lists(ArrayEntries), require_all \in BOOLEAN :
          /\ call' = [entries |-> entries, require_all |-> require_all]
          /\ returned' = validate_arrays_for_packing(entries, require_all)
    /\ pc' = "validate_arrays_for_packing"
    /\ UNCHANGED <<enginevars, objvars, passed, repack, variants, template_file>>

\* normalize_resolution on a list of up to two arrays and a target size
\* that is larger, smaller or not positive.
NormalizeResolution ==
    /\ pc = "idle"
    /\ \E arrays \in NormalizedLists, target_size \in TargetSizes :
          /\ call' = [arrays |-> arrays, target_size |-> target_size]
          /\ returned' = normalize_resolution(arrays, target_size)
    /\ pc' = "normalize_resolution"
    /\ UNCHANGED <<enginevars, objvars, passed, repack, variants, template_file>>

\* ChannelMap(map_type, default_value, description)
ConstructChannelMap ==
    /\ pc = "idle"
    /\ \E mt \in MapTypes, dv \in DefaultValues, d \in Descriptions :
          /\ ctor' = [map_type |-> mt, default_value |-> dv, description |-> d]
          /\ constructed' = ChannelMap(Str(mt), dv, d)
    /\ pc' = "ChannelMap"
    /\ UNCHANGED <<heap, query, passed, repack, variants, callvars>>
    /\ UNCHANGED enginevars

\* load_template reads one slot of the "channels" object of a file.
LoadTemplateChannel ==
    /\ pc = "idle"
    /\ \E info \in ChannelInfos :
          /\ ctor' = [channel_info |-> info]
          /\ constructed' = LoadChannelInfo(info)
    /\ pc' = "load_template_channel"
    /\ UNCHANGED <<heap, query, passed, repack, variants, callvars>>
    /\ UNCHANGED enginevars

\* save_template(template, path): the file is written unless the call
\* fails.
SaveTemplate ==
    /\ pc = "idle"
    /\ \E t \in SavedTemplates \cup {ROUGHNESS} :
          /\ call' = [template |-> t]
          /\ returned' = IF Failed(save_template(t)) THEN save_template(t) ELSE Ok(None)
          /\ template_file' = save_template(t).val
    /\ pc' = "save_template"
    /\ UNCHANGED <<enginevars, objvars, passed, repack, variants>>

\* load_template(path) of a template file, or of the file save_template
\* wrote.
LoadTemplate ==
    /\ \/ pc = "idle"
       \/ pc = "save_template" /\ template_file # None
    /\ \E f \in IF pc = "idle" THEN TemplateFiles ELSE {template_file} :
          /\ call' = [file |-> f, saved |-> IF pc = "idle" THEN None ELSE call.template]
          /\ returned' = load_template(f)
    /\ pc' = "load_template"
    /\ UNCHANGED <<enginevars, objvars, passed, repack, variants, template_file>>

\* PackingTemplate(name, description, channels): the object made, if any,
\* joins the objects alive.
ConstructTemplate ==
    /\ pc \in {"idle", "PackingTemplate"}
    /\ Len(heap) < MaxTemplates
    /\ \E nd \in TemplateNames, chs \in CtorChannels :
          /\ ctor' = [name |-> nd[1], description |-> nd[2], channels |-> chs]
          /\ constructed' = PackingTemplate(nd[1], nd[2], chs)
    /\ heap' = IF Failed(constructed') THEN heap ELSE Append(heap, constructed'.val)
    /\ pc' = "PackingTemplate"
    /\ UNCHANGED <<query, passed, repack, variants, callvars>>
    /\ UNCHANGED enginevars

\* is_rgba() and get_used_channels() of one of the templates alive.
QueryTemplate ==
    /\ pc = "PackingTemplate"
    /\ \E ref \in DOMAIN heap :
          /\ query' = [ref |-> ref,
                       is_rgba |-> is_rgba(heap[ref]),
                       used_channels |-> get_used_channels(heap[ref])]
          /\ passed' = [passed EXCEPT !.object = heap[ref]]
          /\ heap' = [heap EXCEPT ![ref] = TemplateAfterQueries(heap[ref])]
    /\ pc' = "query"
    /\ UNCHANGED <<ctor, constructed, repack, variants, callvars>>
    /\ UNCHANGED enginevars

\* a == b of two references to templates alive.
CompareTemplates ==
    /\ pc = "PackingTemplate"
    /\ \E a \in DOMAIN heap, b \in DOMAIN heap :
          query' = [a |-> a, b |-> b, equal |-> ObjectEq(a, b)]
    /\ pc' = "compare"
    /\ UNCHANGED <<ctor, constructed, heap, passed, repack, variants, callvars>>
    /\ UNCHANGED enginevars

Next ==
    \/ PackChannels
    \/ PackTextureFromTemplate
    \/ LoadImage
    \/ UnpackTexture
    \/ ExtractChannel
    \/ GetMaxResolution
    \/ NormalizeResolution
    \/ ValidateChannelData
    \/ ValidateImagesForPacking
    \/ ValidateArraysForPacking
    \/ ConstructChannelMap
    \/ LoadTemplateChannel
    \/ SaveTemplate
    \/ LoadTemplate
    \/ ConstructTemplate
    \/ QueryTemplate
    \/ CompareTemplates

Spec == Init /\ [][Next]_vars

---------------------------------------------------------------------------
(* Properties *)

\* The map types under which the caller supplies a texture.
Supplied(tex) == {mt \in DOMAIN tex : tex[mt] # None}

\* A well-formed 8-bit raster buffer.
IsUint8Buffer(b) ==
    b.kind = "ndarray" /\ b.ndim = 2 /\ b.h * b.w > 0 /\ b.dtype = "uint8"

\* A buffer pack_channels accepts: 2-dimensional, non-empty, numeric.
IsNumericBuffer(b) ==
    b.kind = "ndarray" /\ b.ndim = 2 /\ b.h * b.w > 0
    /\ b.dtype \in {"uint8", "int16", "float64"}

\* (height, width) of a texture source that loads: an array, an image or
\* the path of an image file.
SourceShape(src) ==
    IF src.kind = "str" THEN <<Files[src.path].h, Files[src.path].w>>
    ELSE <<src.h, src.w>>

\* m is the greatest element of S.
IsGreatest(m, S) == m \in S /\ \A e \in S : e <= m

\* Every sample of buffer b is v.
AllSamples(b, v) ==
    IF b.uniform THEN b.px = << <<v>> >>
    ELSE \A y \in 1..b.h : \A x \in 1..b.w : b.px[y][x] = v

\* floor(d * 255) of a default value d held in thousandths.
Floor255(d) == CHOOSE n \in 0..255 : n * 1000 <= d * 255 /\ d * 255 < (n + 1) * 1000

\* Position of a slot in the stack R, G, B, A.
PlaneOf(key) == CHOOSE i \in 1..4 : Slots[i] = key

\* The used slots of template t for which tex supplies no texture.
DefaultFilled(t, tex) ==
    {key \in SlotSet : t.channels[key] # None
                       /\ DictGet(tex, t.channels[key].map_type) = None}

\* The modes of the model's images that have no alpha plane.
NoAlphaModes == {"1", "L", "RGB", "CMYK"}

PackedByChannels == pc = "pack_channels" /\ ~Failed(packed)
PackedByTemplate == pc = "pack_texture_from_template" /\ ~Failed(packed)

---------------------------------------------------------------------------
\* C1: round-trip identity.  When 8-bit buffers of one shape are supplied
\* under map types of a template's used slots, packed with
\* pack_texture_from_template and the result unpacked with the same
\* template, unpack_texture succeeds and returns under every supplied map
\* type a buffer identical to the one supplied (element type, shape and
\* every sample).
RoundTripCase ==
    /\ pc = "unpack_texture"
    /\ template # None
    /\ unpack_template = template
    /\ image = packed.val
    /\ Supplied(textures) # {}
    /\ \A mt \in Supplied(textures) : IsUint8Buffer(textures[mt])
    /\ \A m1, m2 \in Supplied(textures) :
          textures[m1].h = textures[m2].h /\ textures[m1].w = textures[m2].w

C1_RoundTripIdentity ==
    RoundTripCase =>
        /\ ~Failed(unpacked)
        /\ \A mt \in Supplied(textures) :
              mt \in DOMAIN unpacked.val /\ unpacked.val[mt] = textures[mt]

\* Three different two-sample buffers went through a four-plane image.
C1_Witness ==
    /\ RoundTripCase
    /\ Cardinality(Supplied(textures)) = 3
    /\ \A mt \in Supplied(textures) : textures[mt].w = 2
    /\ image.mode = "RGBA"
    /\ ~Failed(unpacked)

---------------------------------------------------------------------------
---------------------------------------------------------------------------
\* C3: the target resolution is the componentwise maximum.  The width and
\* the height of the image returned by pack_channels, and by
\* pack_texture_from_template when a texture is supplied, are the greatest
\* width and the greatest height of the supplied buffers, each taken on its
\* own, and get_max_resolution returns (greatest width, greatest height) of
\* its images; every plane of the packed image has that resolution.
C3_ComponentwiseMax ==
    /\ PackedByChannels =>
          LET given == {i \in 1..4 : channels_in[i] # None}
          IN  /\ IsGreatest(image.w, {channels_in[i].w : i \in given})
              /\ IsGreatest(image.h, {channels_in[i].h : i \in given})
              /\ \A c \in DOMAIN image.planes :
                    image.planes[c].w = image.w /\ image.planes[c].h = image.h
    /\ (PackedByTemplate /\ Supplied(textures) # {}) =>
          LET sup == Supplied(textures)
          IN  /\ IsGreatest(image.w, {SourceShape(textures[mt])[2] : mt \in sup})
              /\ IsGreatest(image.h, {SourceShape(textures[mt])[1] : mt \in sup})
              /\ \A c \in DOMAIN image.planes :
                    image.planes[c].w = image.w /\ image.planes[c].h = image.h
    /\ (pc = "get_max_resolution" /\ ~Failed(max_resolution)) =>
          /\ IsGreatest(max_resolution.val[1], {images[i].w : i \in DOMAIN images})
          /\ IsGreatest(max_resolution.val[2], {images[i].h : i \in DOMAIN images})

\* A wide and a tall buffer give a target that is the shape of neither.
C3_Witness ==
    /\ PackedByChannels
    /\ image.w = MaxPixels /\ image.h = MaxPixels
    /\ \A i \in 1..4 : channels_in[i] # None =>
          channels_in[i].w * channels_in[i].h < image.w * image.h

---------------------------------------------------------------------------
\* C4: every numeric buffer is coerced to 8-bit, clipped to [0, 255], before
\* composition, also when it already has the target resolution: in the
\* packed image each sample of the plane of a buffer that needed no resize
\* is clip(input sample, 0, 255).
C4_CoercedToUint8 ==
    /\ PackedByChannels =>
          \A i \in 1..4 :
             (channels_in[i] # None /\ channels_in[i].w = image.w
                                    /\ channels_in[i].h = image.h) =>
                \A y \in 1..image.h : \A x \in 1..image.w :
                   image.planes[i].px[y][x] = Clip(channels_in[i].px[y][x], 0, 255)
    /\ PackedByTemplate =>
          \A key \in SlotSet :
             LET src == IF template.channels[key] = None THEN None
                        ELSE DictGet(textures, template.channels[key].map_type)
             IN  (src.kind = "ndarray" /\ src.w = image.w /\ src.h = image.h) =>
                    \A y \in 1..image.h : \A x \in 1..image.w :
                       image.planes[PlaneOf(key)].px[y][x] = Clip(src.px[y][x], 0, 255)

---------------------------------------------------------------------------
---------------------------------------------------------------------------
\* C6: the planes of R, G, B that no buffer was provided for (pack_channels)
\* or that the template leaves unused (pack_texture_from_template) are all
\* zeros in the packed image.
C6_MissingPlanesZero ==
    /\ PackedByChannels =>
          \A i \in 1..3 : channels_in[i] = None => AllSamples(image.planes[i], 0)
    /\ PackedByTemplate =>
          \A i \in 1..3 :
             template.channels[Slots[i]] = None => AllSamples(image.planes[i], 0)

---------------------------------------------------------------------------
\* C7: pack_channels with r, g, b and a all null raises ValueError and
\* returns no image; with at least one buffer given, and every given buffer
\* 2-dimensional, non-empty and numeric, it returns an image.
C7_AtLeastOneChannel ==
    pc = "pack_channels" =>
        LET given == {i \in 1..4 : channels_in[i] # None}
        IN  /\ given = {} =>
                  /\ packed.err.type = "ValueError"
                  /\ packed.val = None /\ image = None
            /\ (given # {} /\ \A i \in given : IsNumericBuffer(channels_in[i])) =>
                  ~Failed(packed) /\ image.kind = "image"

\* The call with four nulls has been made and refused.
C7_Witness ==
    /\ pc = "pack_channels"
    /\ \A i \in 1..4 : channels_in[i] = None
    /\ Failed(packed)

---------------------------------------------------------------------------
\* C8: extract_channel(image, 'A') raises ValueError ('Cannot extract alpha
\* channel') on every image without an alpha plane and returns the fourth
\* plane of every RGBA image.
C8_AlphaExtraction ==
    (pc = "extract_channel" /\ channel = "A") =>
        /\ image.mode \in NoAlphaModes =>
              /\ extracted.err = [type |-> "ValueError",
                                  msg |-> "Cannot extract alpha channel"]
              /\ extracted.val = None
        /\ image.mode = "RGBA" =>
              ~Failed(extracted) /\ extracted.val = image.planes[4]

\* Slot A asked of an RGB image.
C8_Witness ==
    /\ pc = "extract_channel"
    /\ channel = "A"
    /\ image.mode = "RGB"
    /\ Failed(extracted)

---------------------------------------------------------------------------
\* C9: unpack_texture with a template that uses slot A on an image without
\* an alpha plane raises nothing: it returns exactly the map types of the
\* used slots among R, G, B, each with the plane extract_channel gives for
\* its (last) slot, and so no entry for slot A's map type unless another
\* used slot has that map type too.
SkipAlphaCase ==
    /\ pc = "unpack_texture"
    /\ unpack_template.channels["A"] # None
    /\ image.mode \in NoAlphaModes

---------------------------------------------------------------------------
\* C10: unpack_texture with a template that defines slot A raises ValueError
\* on an RGB image.
C10_AlphaRequired ==
    (pc = "unpack_texture" /\ unpack_template.channels["A"] # None
                           /\ image.mode = "RGB") =>
        Failed(unpacked) /\ unpacked.err.type = "ValueError"

---------------------------------------------------------------------------
\* The used slots among R, G, B of template t whose map type no later slot
\* among them repeats, and the map types of all its used R, G, B slots.
LastOfType(t) ==
    {key \in {"R", "G", "B"} :
        /\ t.channels[key] # None
        /\ \A k \in {"R", "G", "B"} :
              (t.channels[k] # None /\ PlaneOf(k) > PlaneOf(key))
                 => t.channels[k].map_type # t.channels[key].map_type}

ColourTypes(t) ==
    {t.channels[key].map_type : key \in {k \in {"R", "G", "B"} : t.channels[k] # None}}

\* C11: unpack_texture on an RGBA image with a template that does not use
\* slot A returns, next to the template's channels, the key "alpha" holding
\* the image's fourth plane; when the template uses slot A, or the image is
\* not RGBA, the result has no "alpha" entry.
C11_AutoAlpha ==
    pc = "unpack_texture" =>
        LET t == unpack_template
        IN  /\ (image.mode = "RGBA" /\ t.channels["A"] = None) =>
                  /\ ~Failed(unpacked)
                  /\ DOMAIN unpacked.val = ColourTypes(t) \cup {"alpha"}
                  /\ unpacked.val["alpha"] = image.planes[4]
                  /\ \A key \in LastOfType(t) :
                        unpacked.val[t.channels[key].map_type]
                           = image.planes[PlaneOf(key)]
            /\ (t.channels["A"] # None \/ image.mode # "RGBA") =>
                  /\ ~Failed(unpacked)
                  /\ DOMAIN unpacked.val =
                        ColourTypes(t)
                        \cup (IF image.mode = "RGBA"
                              THEN {t.channels["A"].map_type} ELSE {})

\* An RGBA image unpacked with a template that uses R only.
C11_Witness ==
    /\ pc = "unpack_texture"
    /\ image.mode = "RGBA"
    /\ unpack_template.channels["A"] = None
    /\ unpack_template.channels["R"] # None
    /\ DOMAIN unpacked.val = {unpack_template.channels["R"].map_type, "alpha"}

---------------------------------------------------------------------------
\* C12: unpack_texture with a template that uses exactly R, G and B on an
\* RGBA image returns exactly the template's map types and no "alpha" key.
C12_AlphaIgnored ==
    (/\ pc = "unpack_texture"
     /\ image.mode = "RGBA"
     /\ unpack_template.channels["A"] = None
     /\ \A key \in {"R", "G", "B"} : unpack_template.channels[key] # None) =>
        /\ ~Failed(unpacked)
        /\ DOMAIN unpacked.val = ColourTypes(unpack_template)
        /\ "alpha" \notin DOMAIN unpacked.val

---------------------------------------------------------------------------
\* C13: extract_channel returns, for a grayscale image, the image's samples
\* for each of R, G and B; for an image of any other mode than RGB and RGBA
\* it returns the requested plane of the image converted to RGB (R, G, B) or
\* to RGBA (A).
C13_ConvertedBeforeExtraction ==
    (pc = "extract_channel" /\ channel \in SlotSet) =>
        /\ (image.mode = "L" /\ channel # "A") =>
              ~Failed(extracted) /\ extracted.val = image.planes[1]
        /\ (image.mode \notin {"L", "RGB", "RGBA"} /\ channel # "A") =>
              /\ ~Failed(extracted)
              /\ extracted.val = ConvertRGB(image).planes[PlaneOf(channel)]
        /\ (image.mode \notin {"L", "RGB", "RGBA"} /\ channel = "A") =>
              /\ ~Failed(extracted)
              /\ extracted.val = ConvertRGBA(image).planes[4]

---------------------------------------------------------------------------
\* C17: ChannelMap construction raises ValueError for every default_value
\* outside [0.0, 1.0] and succeeds, keeping the value, for every value
\* inside, both bounds included; a ChannelMap that load_template makes has
\* its default_value in [0.0, 1.0] too, and a file entry whose default lies
\* outside is refused.
InUnitRange(dv) == 0 <= dv /\ dv <= 1000

C17_DefaultValueRange ==
    /\ pc = "ChannelMap" =>
          IF InUnitRange(ctor.default_value)
          THEN /\ ~Failed(constructed)
               /\ constructed.val.map_type = ctor.map_type
               /\ constructed.val.default_value = ctor.default_value
          ELSE constructed.err.type = "ValueError" /\ constructed.val = None
    /\ pc = "load_template_channel" =>
          /\ (~Failed(constructed) /\ constructed.val # None) =>
                InUnitRange(constructed.val.default_value)
          /\ \A v \in DefaultValues :
                (ctor.channel_info = Object([type |-> Str("roughness"),
                                             default |-> Number(v)])
                 /\ ~InUnitRange(v)) =>
                   constructed.err.type = "TemplateValidationError"

\* A ChannelMap was constructed with the upper bound 1.0.
C17_Witness ==
    /\ pc = "ChannelMap"
    /\ ctor.default_value = 1000
    /\ ~Failed(constructed)
    /\ constructed.val.default_value = 1000

---------------------------------------------------------------------------
\* C18: a PackingTemplate constructor call whose channels argument has only
\* keys among R, G, B, A makes a template whose channels hold exactly the
\* four keys R, G, B, A, the given slots with the given values and the
\* others null; a call whose argument has any other key raises ValueError
\* and makes no template.  Every template alive holds exactly the four keys.
C18_FourSlotKeys ==
    [][pc' = "PackingTemplate" =>
         LET given == IF ctor'.channels = None THEN <<>> ELSE ctor'.channels.items
             t == constructed'.val
         IN  /\ IF KeySet(given) \subseteq {"R", "G", "B", "A"}
                THEN /\ ~Failed(constructed')
                     /\ heap' = Append(heap, t)
                     /\ DOMAIN t.channels = {"R", "G", "B", "A"}
                     /\ \A key \in {"R", "G", "B", "A"} :
                           t.channels[key] = IF key \in KeySet(given)
                                             THEN ItemOf(given, key) ELSE None
                ELSE /\ constructed'.err.type = "ValueError"
                     /\ t = None
                     /\ heap' = heap
             /\ \A i \in DOMAIN heap' :
                   /\ DOMAIN heap'[i].channels = {"R", "G", "B", "A"}
                   /\ Len(heap'[i].keys) = 4]_vars

\* After one template was made, a call with a lower-case key was refused.
C18_Witness ==
    /\ pc = "PackingTemplate"
    /\ Len(heap) = 1
    /\ ctor.channels # None
    /\ "r" \in KeySet(ctor.channels.items)
    /\ Failed(constructed)

---------------------------------------------------------------------------
\* C19: is_rgba() is true exactly when slot A is not null, and
\* get_used_channels() gives the non-null slots in the order R, G, B, A,
\* whatever the order of the keys in the constructor's argument.
C19_TemplateQueries ==
    pc = "query" =>
        LET t == heap[query.ref]
        IN  /\ query.is_rgba = (t.channels["A"] # None)
            /\ query.used_channels
                  = SelectSeq(<<"R", "G", "B", "A">>, LAMBDA key : t.channels[key] # None)

\* The template was given A before R and reports R before A.
C19_Witness ==
    /\ pc = "query"
    /\ query.ref = Len(heap)
    /\ ~Failed(constructed)
    /\ ctor.channels = Dict(<< <<"A", METALLIC>>, <<"R", AMBIENT_OCCLUSION>> >>)
    /\ query.is_rgba
    /\ query.used_channels = <<"R", "A">>

---------------------------------------------------------------------------
\* C20: two PackingTemplates with the same name, the same description and
\* the same slot assignments compare equal, whether or not they are the
\* same object.
C20_StructuralEquality ==
    pc = "compare" =>
        ((/\ heap[query.a].name = heap[query.b].name
          /\ heap[query.a].description = heap[query.b].description
          /\ heap[query.a].channels = heap[query.b].channels)
            => query.equal)

---------------------------------------------------------------------------
\* C14: selective channel replacement.  After pack_texture_from_template
\* and unpack_texture, when exactly one entry of the returned mapping is
\* replaced by a new constant buffer of the same shape, the mapping is
\* packed again with the same template and the result is unpacked, every
\* untouched channel is identical, sample for sample, to the value
\* extracted before the replacement, and the replaced channel is the new
\* constant at every pixel.
ReplaceCase ==
    /\ pc = "unpack_texture"
    /\ repack.kind = "replace"
    /\ unpack_template = template
    /\ image = packed.val

C14_SelectiveReplacement ==
    ReplaceCase =>
        /\ template = repack.template
        /\ ~Failed(unpacked)
        /\ DOMAIN unpacked.val = DOMAIN repack.channels
        /\ \A mt \in DOMAIN repack.channels :
              LET before == repack.channels[mt]
                  after == unpacked.val[mt]
              IN  IF mt = repack.key
                  THEN /\ after.dtype = "uint8"
                       /\ after.h = before.h /\ after.w = before.w
                       /\ AllSamples(after, 200)
                  ELSE after = before

\* One of three two-sample channels was replaced; an untouched one holds
\* two different samples, neither of them the new constant.
C14_Witness ==
    /\ ReplaceCase
    /\ ~Failed(unpacked)
    /\ Cardinality(DOMAIN repack.channels) = 3
    /\ \E mt \in DOMAIN repack.channels \ {repack.key} :
          LET b == repack.channels[mt]
          IN  /\ ~b.uniform /\ b.w = 2
              /\ b.px[1][1] # b.px[1][2]
              /\ b.px[1][1] # 200 /\ b.px[1][2] # 200
              /\ unpacked.val[mt] = b

---------------------------------------------------------------------------
\* C15: repacking across templates.  The ambient occlusion and roughness
\* channels unpack_texture returned for an image packed with the template
\* R=AO, G=Roughness, B=Metallic, packed together with a new displacement
\* buffer of 180 under the template R=AO, G=Roughness, B=Displacement, land
\* in the slots of their map types: the planes of the new image are the
\* AO channel, the roughness channel and 180 everywhere, and unpacking it
\* with the second template returns AO and roughness identical to those
\* extracted from the first image.
CrossCase ==
    /\ pc = "unpack_texture"
    /\ repack.kind = "cross"
    /\ unpack_template = template
    /\ image = packed.val

C15_RepackAcrossTemplates ==
    CrossCase =>
        LET ao == repack.channels["ambient_occlusion"]
            ro == repack.channels["roughness"]
        IN  /\ repack.template.channels = ORM
            /\ template.channels = ORD
            /\ image.mode = "RGB"
            /\ \A y \in 1..Min(image.h, MaxPixels), x \in 1..Min(image.w, MaxPixels) :
                  /\ At(image.planes[1], y, x) = At(ao, y, x)
                  /\ At(image.planes[2], y, x) = At(ro, y, x)
                  /\ At(image.planes[3], y, x) = 180
            /\ image.h = ao.h /\ image.w = ao.w
            /\ ~Failed(unpacked)
            /\ DOMAIN unpacked.val = {"ambient_occlusion", "roughness", "displacement"}
            /\ unpacked.val["ambient_occlusion"] = ao
            /\ unpacked.val["roughness"] = ro
            /\ AllSamples(unpacked.val["displacement"], 180)

\* The AO and roughness channels differ from each other and from 180 at
\* the first pixel, so a plane in the wrong slot would show.
C15_Witness ==
    /\ CrossCase
    /\ ~Failed(unpacked)
    /\ image.w = 2
    /\ At(image.planes[1], 1, 1) # At(image.planes[2], 1, 1)
    /\ At(image.planes[1], 1, 1) # 180
    /\ At(image.planes[2], 1, 1) # 180
    /\ At(image.planes[1], 1, 1) # At(image.planes[1], 1, 2)

---------------------------------------------------------------------------
---------------------------------------------------------------------------
\* C25: validate_channel_data(buffer, expected_shape, allow_empty) returns
\* without error exactly when buffer is an array, has two dimensions, is
\* non-empty or allow_empty is true, has the expected shape when one is
\* given, and has a numeric element type; for a non-array it raises
\* TypeError and for every other violation InvalidChannelDataError; the
\* call changes nothing else.
IsArray(data) == data.kind = "ndarray"

WellFormed(data, expected_shape, allow_empty) ==
    /\ data.ndim = 2
    /\ data.h * data.w > 0 \/ allow_empty
    /\ expected_shape # None =>
          (data.h = expected_shape.h /\ data.w = expected_shape.w)
    /\ data.dtype \in {"uint8", "int16", "float64"}

C25_ValidateChannelData ==
    [][pc' = "validate_channel_data" =>
        /\ IF ~IsArray(call'.data)
           THEN returned'.type = "TypeError"
           ELSE IF WellFormed(call'.data, call'.expected_shape, call'.allow_empty)
           THEN returned' = NoError
           ELSE returned'.type = "InvalidChannelDataError"
        /\ UNCHANGED <<enginevars, objvars, passed, repack, variants>>]_vars

\* An empty numeric array was accepted because allow_empty was true and
\* its shape was the expected one.
C25_Witness ==
    /\ pc = "validate_channel_data"
    /\ IsArray(call.data)
    /\ call.data.h * call.data.w = 0
    /\ call.allow_empty
    /\ call.expected_shape # None
    /\ returned = NoError

---------------------------------------------------------------------------
\* C24: validate_images_for_packing and validate_arrays_for_packing raise
\* ValueError when the list is empty or all its entries are None, raise
\* ValueError when require_all is true and an entry is None, raise a
\* mismatch error (ResolutionMismatchError for images,
\* InvalidChannelDataError for arrays) when the entries that are not None
\* differ in size, and otherwise return the size the entries share:
\* (width, height) of the images, (height, width) of the arrays.
ListValidated == pc \in {"validate_images_for_packing", "validate_arrays_for_packing"}

Present(entries) == {i \in DOMAIN entries : entries[i] # None}

\* Every present entry is of the kind the validator is for: an image, or
\* an array validate_channel_data accepts.
EntriesWellFormed ==
    \A i \in Present(call.entries) :
        IF pc = "validate_images_for_packing"
        THEN call.entries[i].kind = "image"
        ELSE IsNumericBuffer(call.entries[i])

C24_ListValidators ==
    ListValidated =>
        LET entries == call.entries
            present == Present(entries)
            sizes == {<<entries[i].w, entries[i].h>> : i \in present}
        IN  IF present = {}
            THEN returned.err.type = "ValueError"
            ELSE IF call.require_all /\ present # DOMAIN entries
            THEN returned.err.type = "ValueError"
            ELSE EntriesWellFormed =>
                    IF Cardinality(sizes) > 1
                    THEN returned.err.type =
                            IF pc = "validate_images_for_packing"
                            THEN "ResolutionMismatchError"
                            ELSE "InvalidChannelDataError"
                    ELSE \E wh \in sizes :
                            returned =
                               IF pc = "validate_images_for_packing"
                               THEN Ok(<<wh[1], wh[2]>>)
                               ELSE Ok(<<wh[2], wh[1]>>)

\* Two images of one non-square size and an absent entry between them gave
\* that size, require_all being false.
C24_Witness ==
    /\ pc = "validate_images_for_packing"
    /\ Len(call.entries) = 3
    /\ call.entries[2] = None
    /\ ~call.require_all
    /\ EntriesWellFormed
    /\ ~Failed(returned)
    /\ returned.val[1] # returned.val[2]

---------------------------------------------------------------------------
\* C26: normalize_resolution(buffers, (width, height)) raises ValueError for
\* an empty list and for a target dimension that is not positive; otherwise
\* it returns one buffer per input, in input order, each of shape
\* (height, width): a buffer already at the target size is returned with
\* its contents unchanged, every other buffer is resized to the target,
\* larger or smaller than the source.
SamplesOf(b) == {b.px[y][x] : y \in 1..b.h, x \in 1..b.w}

C26_NormalizeResolution ==
    pc = "normalize_resolution" =>
        LET arrays == call.arrays
            tw == call.target_size[1]
            th == call.target_size[2]
        IN  IF arrays = <<>> \/ tw <= 0 \/ th <= 0
            THEN returned.err.type = "ValueError"
            ELSE /\ ~Failed(returned)
                 /\ Len(returned.val) = Len(arrays)
                 /\ \A i \in DOMAIN arrays :
                       LET src == arrays[i]
                           out == returned.val[i]
                           lo == Clip(MinOf(SamplesOf(src)), 0, 255)
                           hi == Clip(MaxOf(SamplesOf(src)), 0, 255)
                       IN  /\ out.kind = "ndarray" /\ out.ndim = 2
                           /\ out.h = th /\ out.w = tw
                           /\ IF src.h = th /\ src.w = tw
                              THEN out = src
                              ELSE \A v \in SamplesOf(out) : lo <= v /\ v <= hi

\* Of two buffers the first was made wider and the second, with samples
\* above all of the first's, was made less tall.
C26_Witness ==
    /\ pc = "normalize_resolution"
    /\ ~Failed(returned)
    /\ Len(call.arrays) = 2
    /\ call.arrays[1].w < call.target_size[1]
    /\ call.arrays[2].h > call.target_size[2]
    /\ \A v \in SamplesOf(returned.val[1]), u \in SamplesOf(returned.val[2]) : v < u

---------------------------------------------------------------------------
\* C27: in unpack_texture, when the used slots of the template have
\* pairwise distinct map types, the entry returned under the map type of
\* every extracted slot is that slot's plane of the image; the "alpha"
\* entry extracted automatically never replaces a channel the template
\* assigned.
DistinctTypes(t) ==
    \A k1, k2 \in SlotSet :
        (t.channels[k1] # None /\ t.channels[k2] # None /\ k1 # k2)
            => t.channels[k1].map_type # t.channels[k2].map_type

C27_AssignedChannelsKept ==
    (pc = "unpack_texture" /\ ~Failed(unpacked) /\ DistinctTypes(unpack_template)) =>
        \A key \in SlotSet :
            (/\ unpack_template.channels[key] # None
             /\ ~(key = "A" /\ image.mode # "RGBA")) =>
                LET mt == unpack_template.channels[key].map_type
                IN  /\ mt \in DOMAIN unpacked.val
                    /\ image.mode \in {"RGB", "RGBA"} =>
                          unpacked.val[mt] = image.planes[PlaneOf(key)]

----------------------------------------------------------------------------
\* C28: the outcome of pack_texture_from_template depends only on the
\* template and on the textures under the map types of its used slots: with
\* one more entry under another key, whether of an invalid type, of three
\* dimensions, a missing file or a larger buffer, the call gives the same
\* image of the same size, or fails in the same way, as without it.
C28_OtherKeysIgnored ==
    pc = "pack_texture_from_template" =>
        \A id \in ExtraEntries : variants[id] = packed

\* A call that succeeded at the size of its 1 x 1 texture although a
\* larger buffer lay under another key, and one that failed.
C28_Witness ==
    /\ pc = "pack_texture_from_template"
    /\ ~Failed(packed)
    /\ packed.val.w = 1 /\ packed.val.h = 1
    /\ ~Failed(variants["larger"])
    /\ \E mt \in DOMAIN passed.textures : passed.textures[mt] # None
    /\ OtherKey(passed.template) \notin UsedTypes(passed.template)

\* C30: with a template that uses no slot pack_texture_from_template fails
\* with the ValueError of pack_channels, "At least one channel must be
\* provided", whatever textures are supplied; with a template that uses a
\* slot and no texture supplied it succeeds and returns the image of the
\* slots' defaults, 1024 x 1024, the unused colour slots 0.
NoTexture(d) == \A mt \in DOMAIN d : d[mt] = None

AllDefaults(t) ==
    LET planes == IF t.channels["A"] # None THEN 4 ELSE 3
    IN  Img(IF planes = 4 THEN "RGBA" ELSE "RGB",
            DefaultResolution, DefaultResolution,
            Tup([c \in 1..planes |->
                   IF t.channels[Slots[c]] = None
                   THEN NpFull(DefaultResolution, DefaultResolution, 0)
                   ELSE NpFull(DefaultResolution, DefaultResolution,
                               DefaultValueUint8(t.channels[Slots[c]]))]))

----------------------------------------------------------------------------
\* C22: loading the file save_template wrote for a template gives a
\* template of the same name and description whose slots R, G, B, A are
\* used or unused as in the saved one and have the same map_type,
\* default_value and description; the file leaves out the unused slots and
\* the descriptions ChannelMap generates, and loading recreates them.
SameChannel(a, b) ==
    IF a = None \/ b = None THEN a = b
    ELSE /\ a.map_type = b.map_type
         /\ a.default_value = b.default_value
         /\ a.description = b.description

FileChannels(f) == f.data.d["channels"].items

C22_SaveLoadRoundTrip ==
    (pc = "load_template" /\ call.saved # None) =>
        LET t == call.saved
            l == returned.val
        IN  /\ ~Failed(returned)
            /\ l.kind = "PackingTemplate"
            /\ l.name = t.name
            /\ l.description = t.description
            /\ \A key \in SlotSet : SameChannel(l.channels[key], t.channels[key])
            /\ KeySet(FileChannels(call.file)) = {key \in SlotSet : t.channels[key] # None}
            /\ \A key \in KeySet(FileChannels(call.file)) :
                  "description" \in DOMAIN ItemOf(FileChannels(call.file), key).d
                      <=> t.channels[key].description
                              # AutoDescription(t.channels[key].map_type)

\* A template with a generated description ("Ao 2X"), one of the caller's
\* and unused slots was saved and loaded.
C22_Witness ==
    /\ pc = "load_template"
    /\ call.saved # None
    /\ ~Failed(returned)
    /\ returned.val.channels["R"] # None
    /\ returned.val.channels["R"].description = "Ao 2X"
    /\ "description" \notin DOMAIN ItemOf(FileChannels(call.file), "R").d
    /\ returned.val.channels["B"] # None
    /\ returned.val.channels["B"].description = "Rough"
    /\ returned.val.channels["G"] = None
    /\ "G" \notin KeySet(FileChannels(call.file))

----------------------------------------------------------------------------
\* C29: for every file that holds JSON, load_template returns a
\* PackingTemplate or fails with TemplateValidationError; no error of
\* another kind escapes.
C29_OnlyValidationErrors ==
    (pc = "load_template" /\ call.file.kind = "json") =>
        IF Failed(returned)
        THEN returned.err.type = "TemplateValidationError"
        ELSE returned.val.kind = "PackingTemplate"

----------------------------------------------------------------------------
\* C21: load_template fails with TemplateValidationError and returns no
\* template for every document that is no JSON object, lacks name or
\* description, has "channels" that is no object, has a channel key other
\* than R, G, B, A, has a channel entry that is neither null nor an object
\* or that lacks type or default, or has a default outside [0, 1].
DefaultOutside(x) ==
    \/ x.kind = "number" /\ ~(0 <= x.v /\ x.v <= 1000)
    \/ x.kind = "bigint"
    \/ x.kind = "str" /\ x.text = "1.5"

BadEntry(info) ==
    /\ info # None
    /\ \/ info.kind # "object"
       \/ "type" \notin DOMAIN info.d
       \/ "default" \notin DOMAIN info.d
       \/ DefaultOutside(info.d["default"])

SchemaViolation(f) ==
    /\ f.kind = "json"
    /\ \/ f.data.kind # "object"
       \/ "name" \notin DOMAIN f.data.d
       \/ "description" \notin DOMAIN f.data.d
       \/ /\ "channels" \in DOMAIN f.data.d
          /\ \/ f.data.d["channels"].kind # "dict"
             \/ \E i \in DOMAIN f.data.d["channels"].items :
                   \/ f.data.d["channels"].items[i][1] \notin {"R", "G", "B", "A"}
                   \/ BadEntry(f.data.d["channels"].items[i][2])

C21_SchemaViolationsRejected ==
    (pc = "load_template" /\ SchemaViolation(call.file)) =>
        /\ Failed(returned)
        /\ returned.err.type = "TemplateValidationError"
        /\ returned.val = None

----------------------------------------------------------------------------
\* C23: the error load_template raises for a file that is not JSON is of
\* another type than the errors it raises for schema violations: a missing
\* field, a bad channel key, a default out of range.
SchemaViolationFiles ==
    {JsonFile(Object([description |-> Str("packed")])),
     JsonFile(Object([name |-> Str("ORM"), description |-> Str("packed"),
                      channels |-> Dict(<< <<"X", None>> >>)])),
     JsonFile(Object([name |-> Str("ORM"), description |-> Str("packed"),
                      channels |-> Dict(<< <<"R", Object([type |-> Str("roughness"),
                                                          default |-> Number(1500)])>> >>)]))}

C23_DistinctSyntaxError ==
    (pc = "load_template" /\ call.file.kind = "text") =>
        /\ Failed(returned)
        /\ \A f \in SchemaViolationFiles :
              returned.err.type # load_template(f).err.type

====
